---------------------------- MODULE Spec2Model ----------------------------
(***************************************************************************)
(* Script-to-timed-audio pipeline of knodemy/ai-agent.                     *)
(*                                                                         *)
(* Text is modelled as a sequence of one-character strings, so that the    *)
(* regular expressions and the strip/split/join calls of the source are    *)
(* computed character by character.  Two characters outside ASCII are      *)
(* written by name: "EN_DASH" and "BULLET".                                *)
(***************************************************************************)
EXTENDS Integers, Sequences, FiniteSets, TLC

VARIABLES
    \* ---- EnhancedTimedSpeechGenerator.parse_lecture_segments
    script_text,       \* the raw script handed to the parser
    lines,             \* clean_script.split('\n')
    line_idx,          \* position of the for loop over lines
    segments,          \* list of LectureSegment already saved
    current_segment,   \* the open segment, or None
    current_content,   \* list of content lines of the open segment
    segment_order,     \* next order value
    markers_seen,      \* ghost: number of lines on which timing_match matched
    parse_pc,
    \* ---- clean_segment_content_for_tts applied once and twice
    clean_input,
    clean_once,
    clean_twice,
    clean_pc,
    \* ---- split_text_into_chunks
    chunk_text,
    chunks,
    chunk_pc,
    \* ---- ContentProcessor.generate_script_pdf_bytes
    pdf_source_url,    \* the argument
    response,          \* what the web server answers for that URL
    pdf_pages,         \* page.extract_text() of each page of the served PDF
    pdf_text,          \* the text accumulated by extract_text_from_pdf
    extracted,         \* its return value, or None
    script_result,     \* the returned dict, or None
    script_error,      \* the exception raised, "" while there is none
    fetch_calls,       \* requests.get calls made
    extract_calls,     \* extract_text_from_pdf calls made
    llm_calls,         \* chat.completions.create calls made
    script_pc,
    \* ---- EnhancedTimedSpeechGenerator.generate_timed_lesson_audio
    job_script,        \* what extract_script_text_from_pdf_url returns; the
                       \* empty text stands for None (line 609 tests
                       \* `not script_text`)
    job_dir,           \* the job directory exists
    files,             \* the files of the job directory: name -> content
    job_segments,      \* segments = parse_lecture_segments(script_text)
    seg_idx,           \* position of the loop over segments
    speech_duration,   \* samples measured in the current segment's speech file
    segment_files,     \* list of final segment files
    playlist_data,     \* the playlist; its "segments" list grows in the loop
    segment_result,    \* result of generate_timed_audio_segments_with_pauses
    result,            \* result of generate_timed_lesson_audio
    tts_calls,         \* audio.speech.create calls made
    measured,          \* ghost: order, speech samples and declared minimum
                       \* of every segment whose speech was synthesized
    final_durations,   \* ghost: samples measured at line 511, one per entry
                       \* of segment_files
    audio_pc,
    \* ---- process_course_for_scripts (app.py)
    setup,             \* what the constructors at lines 213 and 227 do
    audio_enabled,     \* GENERATE_TIMED_AUDIO and TimedSpeechGenerator
    lessons_with_pdfs, \* what get_lessons_with_pdf_resources returned
    lesson_idx,        \* position of the loop over lessons
    pdf_idx,           \* position of the loop over lesson['pdf_urls']
    course_result,     \* the dict named result
    unit_log,          \* ghost: the PDF units gone through, with what happened
    returned,          \* the dict handed back to the caller, or None
    batch_pc,
    \* ---- EnhancedTimedSpeechGenerator.set_voice and text_to_speech_chunk
    voice,             \* self.voice
    set_voice_args,    \* ghost: the arguments of the set_voice calls so far
    request_voices     \* ghost: the voice= of the TTS requests made so far

parseVars == <<script_text, lines, line_idx, segments, current_segment,
               current_content, segment_order, markers_seen, parse_pc>>
cleanVars == <<clean_input, clean_once, clean_twice, clean_pc>>
chunkVars == <<chunk_text, chunks, chunk_pc>>
scriptVars == <<pdf_source_url, response, pdf_pages, pdf_text, extracted,
                script_result, script_error, fetch_calls, extract_calls,
                llm_calls, script_pc>>

audioVars == <<job_script, job_dir, files, job_segments, seg_idx, speech_duration,
               segment_files, playlist_data, segment_result, result,
               tts_calls, measured, final_durations, audio_pc>>

batchVars == <<setup, audio_enabled, lessons_with_pdfs, lesson_idx, pdf_idx,
               course_result, unit_log, returned, batch_pc>>

voiceVars == <<voice, set_voice_args, request_voices>>

vars == <<parseVars, cleanVars, chunkVars, scriptVars, audioVars, batchVars,
          voiceVars>>

\* Python's None, where a record may stand instead
None == [none |-> TRUE]

\* The state of the components that a specification does not exercise: every
\* specification below runs one component and leaves the others as they are
\* before any call.
Idle(component) ==
    /\ component # "parse" =>
        /\ script_text = <<>>
        /\ lines = <<>>
        /\ line_idx = 0
        /\ segments = <<>>
        /\ current_segment = None
        /\ current_content = <<>>
        /\ segment_order = 0
        /\ markers_seen = 0
        /\ parse_pc = "idle"
    /\ component # "clean" =>
        /\ clean_input = <<>>
        /\ clean_once = <<>>
        /\ clean_twice = <<>>
        /\ clean_pc = "idle"
    /\ component # "chunk" =>
        /\ chunk_text = <<>>
        /\ chunks = <<>>
        /\ chunk_pc = "idle"
    /\ component # "script" =>
        /\ pdf_source_url = <<>>
        /\ response = "none"
        /\ pdf_pages = <<>>
        /\ pdf_text = <<>>
        /\ extracted = None
        /\ script_result = None
        /\ script_error = ""
        /\ fetch_calls = 0
        /\ extract_calls = 0
        /\ llm_calls = 0
        /\ script_pc = "idle"
    /\ component # "audio" =>
        /\ job_script = <<>>
        /\ job_dir = FALSE
        /\ files = <<>>
        /\ job_segments = <<>>
        /\ seg_idx = 0
        /\ speech_duration = 0
        /\ segment_files = <<>>
        /\ playlist_data = None
        /\ segment_result = None
        /\ result = None
        /\ tts_calls = 0
        /\ measured = <<>>
        /\ final_durations = <<>>
        /\ audio_pc = "idle"
    /\ component # "batch" =>
        /\ setup = "ok"
        /\ audio_enabled = TRUE
        /\ lessons_with_pdfs = <<>>
        /\ lesson_idx = 0
        /\ pdf_idx = 0
        /\ course_result = None
        /\ unit_log = <<>>
        /\ returned = None
        /\ batch_pc = "idle"
    /\ component # "voice" =>
        /\ voice = "alloy"
        /\ set_voice_args = <<>>
        /\ request_voices = <<>>

(***************************************************************************)
(* Bounds of the model.                                                    *)
(***************************************************************************)
MaxLines == 3

(***************************************************************************)
(* Characters and the str methods used by the source.                      *)
(***************************************************************************)
IsSpace(c) == c \in {" ", "\n", "\t"}
IsDigit(c) == c \in {"0", "1", "2", "3", "4", "5", "6", "7", "8", "9"}
IsDash(c) == c \in {"-", "EN_DASH"}

DigitVal(c) ==
    CASE c = "0" -> 0 [] c = "1" -> 1 [] c = "2" -> 2 [] c = "3" -> 3
      [] c = "4" -> 4 [] c = "5" -> 5 [] c = "6" -> 6 [] c = "7" -> 7
      [] c = "8" -> 8 [] c = "9" -> 9

\* int(s) for a string of decimal digits
RECURSIVE ParseInt(_)
ParseInt(s) ==
    IF s = <<>> THEN 0
    ELSE 10 * ParseInt(SubSeq(s, 1, Len(s) - 1)) + DigitVal(s[Len(s)])

RECURSIVE LStrip(_)
LStrip(s) ==
    IF s = <<>> THEN s
    ELSE IF IsSpace(Head(s)) THEN LStrip(Tail(s)) ELSE s

RECURSIVE RStrip(_)
RStrip(s) ==
    IF s = <<>> THEN s
    ELSE IF IsSpace(s[Len(s)]) THEN RStrip(SubSeq(s, 1, Len(s) - 1)) ELSE s

\* str.strip()
Strip(s) == LStrip(RStrip(s))

\* str.startswith(p)
StartsWith(s, p) == Len(s) >= Len(p) /\ SubSeq(s, 1, Len(p)) = p

\* str.endswith(p)
EndsWith(s, p) == Len(s) >= Len(p) /\ SubSeq(s, Len(s) - Len(p) + 1, Len(s)) = p

\* p in s
Contains(s, p) ==
    \E i \in 1..(Len(s) - Len(p) + 1) : SubSeq(s, i, i + Len(p) - 1) = p

\* the text from position i on starts with p
At(s, i, p) == i >= 1 /\ i + Len(p) - 1 <= Len(s) /\ SubSeq(s, i, i + Len(p) - 1) = p

\* s.split('\n'): always at least one element
RECURSIVE SplitLines(_)
SplitAt(s, k) == <<SubSeq(s, 1, k - 1)>> \o SplitLines(SubSeq(s, k + 1, Len(s)))

SplitLines(s) ==
    IF \A i \in 1..Len(s) : s[i] # "\n" THEN <<s>>
    ELSE SplitAt(s, CHOOSE i \in 1..Len(s) :
                        s[i] = "\n" /\ \A j \in 1..(i - 1) : s[j] # "\n")

\* '\n'.join(ls)
RECURSIVE JoinLines(_)
JoinLines(ls) ==
    IF ls = <<>> THEN <<>>
    ELSE IF Len(ls) = 1 THEN ls[1]
    ELSE ls[1] \o <<"\n">> \o JoinLines(Tail(ls))

\* the end of the longest run of digits that starts at i: one position, or
\* none when s[i] is no digit (\d+, followed by something that is no digit)
NumberEnd(s, i) ==
    { j \in i..Len(s) : /\ \A k \in i..j : IsDigit(s[k])
                        /\ (j = Len(s) \/ ~IsDigit(s[j + 1])) }

\* the end of the longest run of whitespace that starts at i (i - 1 when
\* the run is empty): \s*, followed by something that is no whitespace
SpaceEnd(s, i) ==
    { j \in (i - 1)..Len(s) : /\ \A k \in i..j : IsSpace(s[k])
                              /\ (j = Len(s) \/ ~IsSpace(s[j + 1])) }

\* the leftmost match of a pattern: f[p] is the set of its matches that
\* start at position p (empty, or one match); None when f is empty everywhere
LeftmostMatch(f) ==
    IF \A p \in DOMAIN f : f[p] = {} THEN None
    ELSE CHOOSE m \in f[CHOOSE p \in DOMAIN f :
                            f[p] # {} /\ \A j \in 1..(p - 1) : f[j] = {}] : TRUE

UpperCase == <<"A", "B", "C", "D", "E", "F", "G", "H", "I", "J", "K", "L", "M",
               "N", "O", "P", "Q", "R", "S", "T", "U", "V", "W", "X", "Y", "Z">>
LowerCase == <<"a", "b", "c", "d", "e", "f", "g", "h", "i", "j", "k", "l", "m",
               "n", "o", "p", "q", "r", "s", "t", "u", "v", "w", "x", "y", "z">>

LowerChar(c) ==
    IF \E i \in 1..26 : UpperCase[i] = c
    THEN LowerCase[CHOOSE i \in 1..26 : UpperCase[i] = c]
    ELSE c

\* str.lower()
Lower(s) == [i \in 1..Len(s) |-> LowerChar(s[i])]

(***************************************************************************)
(* clean_script_metadata: drop the leading metadata lines.                 *)
(***************************************************************************)
MetaScanLines == 10

IsMetadataLine(line_stripped) ==
    \/ StartsWith(line_stripped, <<"L", "e", "c", "t", "u", "r", "e", " ", "S", "c", "r", "i", "p", "t", ":">>)
    \/ StartsWith(line_stripped, <<"G", "e", "n", "e", "r", "a", "t", "e", "d", " ", "f", "o", "r", ":">>)
    \/ StartsWith(line_stripped, <<"S", "o", "u", "r", "c", "e", ":">>)
    \/ StartsWith(line_stripped, <<"G", "e", "n", "e", "r", "a", "t", "e", "d", ":">>)
    \/ StartsWith(line_stripped, <<"-", "-", "-">>)
    \/ Contains(line_stripped, <<"G", "e", "n", "e", "r", "a", "t", "e", "d", ":">>)
    \/ Contains(line_stripped, <<"S", "o", "u", "r", "c", "e", ":">>)
    \/ line_stripped = <<>>

\* the for loop of clean_script_metadata; i is the 0-based enumerate index
RECURSIVE MetadataLoop(_, _, _, _)
MetadataLoop(ls, i, skip_lines, cleaned_lines) ==
    IF i >= Len(ls) THEN cleaned_lines
    ELSE IF skip_lines /\ i < MetaScanLines
    THEN IF IsMetadataLine(Strip(ls[i + 1]))
         THEN MetadataLoop(ls, i + 1, TRUE, cleaned_lines)
         ELSE MetadataLoop(ls, i + 1, FALSE, Append(cleaned_lines, ls[i + 1]))
    ELSE MetadataLoop(ls, i + 1, skip_lines,
                      IF ~skip_lines THEN Append(cleaned_lines, ls[i + 1])
                      ELSE cleaned_lines)

clean_script_metadata(text) ==
    Strip(JoinLines(MetadataLoop(SplitLines(text), 0, TRUE, <<>>)))

(***************************************************************************)
(* The three regular expressions of parse_lecture_segments, as re.search   *)
(* evaluates them on one line (a line holds no newline).                   *)
(***************************************************************************)
\* minutes?\] matched from position j: the position of the ']'
MinutesEnd(s, j) ==
    { e \in {j + 6, j + 7} : /\ At(s, j, <<"m", "i", "n", "u", "t", "e">>)
                             /\ e <= Len(s) /\ s[e] = "]"
                             /\ (e = j + 7 => s[j + 6] = "s") }

\* (\d+)[-EN_DASH](\d+)\s*minutes?\] matched from position i: the two
\* numbers and the position of the ']'
DurationTail(s, i) ==
    UNION { UNION { UNION {
        { [min |-> ParseInt(SubSeq(s, i, a)),
           max |-> ParseInt(SubSeq(s, a + 2, b)),
           end |-> e] : e \in MinutesEnd(s, c + 1) }
        : c \in SpaceEnd(s, b + 1) }
        : b \in IF a + 1 <= Len(s) /\ IsDash(s[a + 1])
                THEN NumberEnd(s, a + 2) ELSE {} }
        : a \in NumberEnd(s, i) }

\* the first ':' after position p ([^:]*? can stop nowhere else)
FirstColonAfter(s, p) ==
    { q \in (p + 1)..Len(s) : s[q] = ":" /\ \A j \in (p + 1)..(q - 1) : s[j] # ":" }

\* \[([^:]*?):\s*(\d+)[-EN_DASH](\d+)\s*minutes?\] matched at position p
TimingMatchAt(s, p) ==
    IF s[p] # "[" THEN {}
    ELSE UNION { UNION {
        { [group1 |-> SubSeq(s, p + 1, q - 1), group2 |-> d.min, group3 |-> d.max]
          : d \in DurationTail(s, c + 1) }
        : c \in SpaceEnd(s, q + 1) }
        : q \in FirstColonAfter(s, p) }

\* re.search(r'\[([^:]*?):\s*(\d+)[-EN_DASH](\d+)\s*minutes?\]', line)
timing_match(s) == LeftmostMatch([p \in 1..Len(s) |-> TimingMatchAt(s, p)])

\* \[(\d+)[-EN_DASH](\d+)\s*minutes?\] matched at position p
SimpleMatchAt(s, p) ==
    IF s[p] # "[" THEN {}
    ELSE { [group1 |-> d.min, group2 |-> d.max] : d \in DurationTail(s, p + 1) }

\* re.search(r'\[(\d+)[-EN_DASH](\d+)\s*minutes?\]', line)
simple_timing_match(s) == LeftmostMatch([p \in 1..Len(s) |-> SimpleMatchAt(s, p)])

\* re.search(r'\[.*?minutes?\]', line)
HasMinutesBracket(s) ==
    \E p \in 1..Len(s) :
        /\ s[p] = "["
        /\ \E j \in (p + 1)..Len(s) : MinutesEnd(s, j) # {}

(***************************************************************************)
(* _determine_segment_type                                                 *)
(***************************************************************************)
\* the practice keywords are tested before the objectives keywords
_determine_segment_type_practice_first(title) ==
    LET title_lower == Lower(title)
    IN  IF \/ Contains(title_lower, <<"h", "o", "o", "k">>)
           \/ Contains(title_lower, <<"o", "p", "e", "n", "i", "n", "g">>)
           \/ Contains(title_lower, <<"i", "n", "t", "r", "o", "d", "u", "c", "t", "i", "o", "n">>)
        THEN "hook"
        ELSE IF \/ Contains(title_lower, <<"p", "r", "a", "c", "t", "i", "c", "e">>)
                \/ Contains(title_lower, <<"a", "p", "p", "l", "i", "c", "a", "t", "i", "o", "n">>)
                \/ Contains(title_lower, <<"a", "c", "t", "i", "v", "i", "t", "y">>)
        THEN "practice"
        ELSE IF \/ Contains(title_lower, <<"o", "b", "j", "e", "c", "t", "i", "v", "e">>)
                \/ Contains(title_lower, <<"l", "e", "a", "r", "n", "i", "n", "g">>)
                \/ Contains(title_lower, <<"g", "o", "a", "l", "s">>)
        THEN "objectives"
        ELSE IF \/ Contains(title_lower, <<"r", "e", "c", "a", "p">>)
                \/ Contains(title_lower, <<"t", "a", "k", "e", "a", "w", "a", "y">>)
                \/ Contains(title_lower, <<"c", "o", "n", "c", "l", "u", "s", "i", "o", "n">>)
                \/ Contains(title_lower, <<"s", "u", "m", "m", "a", "r", "y">>)
        THEN "recap"
        ELSE "content"

_determine_segment_type(title) ==
    LET title_lower == Lower(title)
    IN  IF \/ Contains(title_lower, <<"h", "o", "o", "k">>)
           \/ Contains(title_lower, <<"o", "p", "e", "n", "i", "n", "g">>)
           \/ Contains(title_lower, <<"i", "n", "t", "r", "o", "d", "u", "c", "t", "i", "o", "n">>)
        THEN "hook"
        ELSE IF \/ Contains(title_lower, <<"o", "b", "j", "e", "c", "t", "i", "v", "e">>)
                \/ Contains(title_lower, <<"l", "e", "a", "r", "n", "i", "n", "g">>)
                \/ Contains(title_lower, <<"g", "o", "a", "l", "s">>)
        THEN "objectives"
        ELSE IF \/ Contains(title_lower, <<"p", "r", "a", "c", "t", "i", "c", "e">>)
                \/ Contains(title_lower, <<"a", "p", "p", "l", "i", "c", "a", "t", "i", "o", "n">>)
                \/ Contains(title_lower, <<"a", "c", "t", "i", "v", "i", "t", "y">>)
        THEN "practice"
        ELSE IF \/ Contains(title_lower, <<"r", "e", "c", "a", "p">>)
                \/ Contains(title_lower, <<"t", "a", "k", "e", "a", "w", "a", "y">>)
                \/ Contains(title_lower, <<"c", "o", "n", "c", "l", "u", "s", "i", "o", "n">>)
                \/ Contains(title_lower, <<"s", "u", "m", "m", "a", "r", "y">>)
        THEN "recap"
        ELSE "content"

(***************************************************************************)
(* parse_lecture_segments, one action per iteration of its for loop.       *)
(***************************************************************************)
LectureSegment(title, content, duration_min, duration_max, order, segment_type) ==
    [title |-> title, content |-> content, duration_min |-> duration_min,
     duration_max |-> duration_max, order |-> order,
     segment_type |-> segment_type]

\* "Save previous segment if exists" / "Add the last segment"
SaveSegment(segs, cur, content) ==
    IF cur # None /\ content # <<>>
    THEN Append(segs, [cur EXCEPT !.content = Strip(JoinLines(content))])
    ELSE segs

\* the lines a script is drawn from
LineVocabulary ==
    { <<"[", "H", "o", "o", "k", ":", " ", "3", "-", "5", " ", "m", "i", "n", "u", "t", "e", "s", "]">>,
      <<"[", "R", "e", "c", "a", "p", ":", " ", "1", "-", "2", " ", "m", "i", "n", "u", "t", "e", "]">>,
      <<"[", "2", "-", "4", " ", "m", "i", "n", "u", "t", "e", "s", "]">>,
      <<"H", "i", " ", "a", "l", "l", ".">>,
      <<"[", "w", "a", "i", "t", " ", "2", " ", "m", "i", "n", "u", "t", "e", "s", "]">>,
      <<"S", "o", "u", "r", "c", "e", ":", " ", "x">>,
      <<>> }

ScriptTexts ==
    { JoinLines(ls) : ls \in UNION { [1..n -> LineVocabulary] : n \in 1..MaxLines } }
    \cup
    \* a text line after a metadata block that ends before, at and after the
    \* last line looked at for metadata
    { JoinLines([i \in 1..(k + 1) |->
                    IF i <= k THEN <<"S", "o", "u", "r", "c", "e", ":", " ", "x">>
                    ELSE <<"H", "i", " ", "a", "l", "l", ".">>]) :
        k \in (MetaScanLines - 1)..(MetaScanLines + 1) }
    \cup
    \* one segment under a label with none, one or two of the keywords of
    \* _determine_segment_type
    { <<"[">> \o label \o <<":", " ", "1", "-", "2", " ", "m", "i", "n", "u", "t", "e", "s", "]", "\n", "H", "i", ".">> :
        label \in { <<"L", "e", "a", "r", "n", "i", "n", "g", " ", "A", "c", "t", "i", "v", "i", "t", "y">>,
                    <<"I", "n", "t", "r", "o", "d", "u", "c", "t", "i", "o", "n", " ", "S", "u", "m", "m", "a", "r", "y">>,
                    <<"G", "O", "A", "L", "S">>,
                    <<"K", "e", "y", " ", "T", "a", "k", "e", "a", "w", "a", "y">>,
                    <<"B", "r", "e", "a", "k">>,
                    <<"P", "r", "a", "c", "t", "i", "c", "e", " ", "R", "e", "c", "a", "p">>,
                    <<"A", "c", "t", "i", "v", "i", "t", "y", " ", "C", "o", "n", "c", "l", "u", "s", "i", "o", "n">>,
                    <<"O", "b", "j", "e", "c", "t", "i", "v", "e">>,
                    <<"A", "p", "p", "l", "i", "c", "a", "t", "i", "o", "n">>,
                    <<"O", "p", "e", "n", "i", "n", "g">> } }

\* which branch of the loop body a (stripped) line takes, lines 162-204
LineBranch(cur, line) ==
    IF line = <<>> THEN "blank"
    ELSE IF timing_match(line) # None THEN "timing"
    ELSE IF simple_timing_match(line) # None /\ cur # None THEN "simple"
    ELSE "content"

\* lines 163-164
BlankBranch(st) ==
    [st EXCEPT !.current_content =
        IF st.current_content # <<>> THEN Append(st.current_content, <<>>)
        ELSE st.current_content]

\* lines 185-192
NewSegment(title, m, order) ==
    LectureSegment(title, <<>>, m.group2, m.group3, order,
                   _determine_segment_type(title))

\* lines 172-194
TimingBranch(st, m) ==
    [segments |-> SaveSegment(st.segments, st.current_segment, st.current_content),
     current_segment |-> NewSegment(Strip(m.group1), m, st.segment_order),
     current_content |-> <<>>,
     segment_order |-> st.segment_order + 1]

\* the marker without label takes an order value as a labelled one does
SimpleBranchTakingOrder(st, m) ==
    [st EXCEPT !.current_segment =
                   [st.current_segment EXCEPT !.duration_min = m.group1,
                                              !.duration_max = m.group2],
               !.segment_order = @ + 1]

\* lines 197-199
SimpleBranch(st, m) ==
    [st EXCEPT !.current_segment =
        [st.current_segment EXCEPT !.duration_min = m.group1,
                                   !.duration_max = m.group2]]

\* lines 202-204
ContentBranch(st, line) ==
    [st EXCEPT !.current_content =
        IF ~HasMinutesBracket(line) THEN Append(st.current_content, line)
        ELSE st.current_content]

BranchStep(st, line, branch) ==
    CASE branch = "blank" -> BlankBranch(st)
      [] branch = "timing" -> TimingBranch(st, timing_match(line))
      [] branch = "simple" -> SimpleBranch(st, simple_timing_match(line))
      [] branch = "content" -> ContentBranch(st, line)

StrippedStep(st, line) == BranchStep(st, line, LineBranch(st.current_segment, line))

\* one iteration of the for loop on the state
\* [segments, current_segment, current_content, segment_order]
StepLine(st, raw_line) == StrippedStep(st, Strip(raw_line))

RECURSIVE ParseLoop(_, _, _)
ParseLoop(ls, i, st) ==
    IF i > Len(ls) THEN st ELSE ParseLoop(ls, i + 1, StepLine(st, ls[i]))

FlushLast(st) == SaveSegment(st.segments, st.current_segment, st.current_content)

\* the whole function: List[LectureSegment]
parse_lecture_segments(text) ==
    FlushLast(ParseLoop(SplitLines(clean_script_metadata(text)), 1,
                        [segments |-> <<>>, current_segment |-> None,
                         current_content |-> <<>>, segment_order |-> 0]))

ParseInit ==
    /\ script_text \in ScriptTexts
    /\ lines = <<>>
    /\ line_idx = 0
    /\ segments = <<>>
    /\ current_segment = None
    /\ current_content = <<>>
    /\ segment_order = 0
    /\ markers_seen = 0
    /\ parse_pc = "start"
    /\ Idle("parse")

\* lines 150-158
ParseBegin ==
    /\ parse_pc = "start"
    /\ lines' = SplitLines(clean_script_metadata(script_text))
    /\ line_idx' = 1
    /\ parse_pc' = "loop"
    /\ UNCHANGED <<script_text, segments, current_segment, current_content,
                   segment_order, markers_seen>>
    /\ UNCHANGED <<cleanVars, chunkVars, scriptVars, audioVars, batchVars,
                   voiceVars>>

ParserState ==
    [segments |-> segments, current_segment |-> current_segment,
     current_content |-> current_content, segment_order |-> segment_order]

SetParserState(st) ==
    /\ segments' = st.segments
    /\ current_segment' = st.current_segment
    /\ current_content' = st.current_content
    /\ segment_order' = st.segment_order

\* lines 160-165
ParseBlankLine ==
    /\ parse_pc = "loop"
    /\ line_idx <= Len(lines)
    /\ LineBranch(current_segment, Strip(lines[line_idx])) = "blank"
    /\ SetParserState(StepLine(ParserState, lines[line_idx]))
    /\ markers_seen' = markers_seen
    /\ line_idx' = line_idx + 1
    /\ UNCHANGED <<script_text, lines, parse_pc>>
    /\ UNCHANGED <<cleanVars, chunkVars, scriptVars, audioVars, batchVars,
                   voiceVars>>

\* lines 171-194
ParseTimingMarker ==
    /\ parse_pc = "loop"
    /\ line_idx <= Len(lines)
    /\ LineBranch(current_segment, Strip(lines[line_idx])) = "timing"
    /\ SetParserState(StepLine(ParserState, lines[line_idx]))
    /\ markers_seen' = markers_seen + 1
    /\ line_idx' = line_idx + 1
    /\ UNCHANGED <<script_text, lines, parse_pc>>
    /\ UNCHANGED <<cleanVars, chunkVars, scriptVars, audioVars, batchVars,
                   voiceVars>>

\* lines 196-199
ParseSimpleMarker ==
    /\ parse_pc = "loop"
    /\ line_idx <= Len(lines)
    /\ LineBranch(current_segment, Strip(lines[line_idx])) = "simple"
    /\ SetParserState(StepLine(ParserState, lines[line_idx]))
    /\ markers_seen' = markers_seen
    /\ line_idx' = line_idx + 1
    /\ UNCHANGED <<script_text, lines, parse_pc>>
    /\ UNCHANGED <<cleanVars, chunkVars, scriptVars, audioVars, batchVars,
                   voiceVars>>

\* lines 201-204
ParseContentLine ==
    /\ parse_pc = "loop"
    /\ line_idx <= Len(lines)
    /\ LineBranch(current_segment, Strip(lines[line_idx])) = "content"
    /\ SetParserState(StepLine(ParserState, lines[line_idx]))
    /\ markers_seen' = markers_seen
    /\ line_idx' = line_idx + 1
    /\ UNCHANGED <<script_text, lines, parse_pc>>
    /\ UNCHANGED <<cleanVars, chunkVars, scriptVars, audioVars, batchVars,
                   voiceVars>>

\* lines 206-211
ParseEnd ==
    /\ parse_pc = "loop"
    /\ line_idx > Len(lines)
    /\ segments' = SaveSegment(segments, current_segment, current_content)
    /\ parse_pc' = "done"
    /\ UNCHANGED <<script_text, lines, line_idx, current_segment,
                   current_content, segment_order, markers_seen>>
    /\ UNCHANGED <<cleanVars, chunkVars, scriptVars, audioVars, batchVars,
                   voiceVars>>

ParseNext ==
    \/ ParseBegin
    \/ ParseBlankLine
    \/ ParseTimingMarker
    \/ ParseSimpleMarker
    \/ ParseContentLine
    \/ ParseEnd

SpecParse == ParseInit /\ [][ParseNext]_vars

(***************************************************************************)
(* clean_segment_content_for_tts: the patterns of its re.sub calls.        *)
(***************************************************************************)
Removed(e) == [end |-> e, repl |-> <<>>]

\* line 102: \[\d+:\d+\]
ClockMarker(s, i) ==
    IF s[i] # "[" THEN {}
    ELSE UNION { { Removed(b + 1) : b \in { b \in NumberEnd(s, a + 2) :
                                            At(s, b + 1, <<"]">>) } }
                 : a \in { a \in NumberEnd(s, i + 1) : At(s, a + 1, <<":">>) } }

\* line 103: \[(\d+)[-EN_DASH](\d+)\s*minutes?\]
DurationMarker(s, i) ==
    IF s[i] # "[" THEN {}
    ELSE { Removed(d.end) : d \in DurationTail(s, i + 1) }

\* line 106: \[.*?\] with DOTALL
Bracketed(s, i) ==
    IF s[i] # "[" THEN {}
    ELSE { Removed(e) : e \in { e \in (i + 1)..Len(s) :
               s[e] = "]" /\ \A k \in (i + 1)..(e - 1) : s[k] # "]" } }

\* line 109: \*\*(.*?)\*\* -> \1
Bold(s, i) ==
    IF ~At(s, i, <<"*", "*">>) THEN {}
    ELSE { [end |-> j + 1, repl |-> SubSeq(s, i + 2, j - 1)] :
           j \in { j \in (i + 2)..Len(s) :
                   /\ At(s, j, <<"*", "*">>)
                   /\ \A k \in (i + 2)..(j - 1) :
                          s[k] # "\n" /\ ~At(s, k, <<"*", "*">>) } }

\* line 110: \*(.*?)\* -> \1
Italic(s, i) ==
    IF s[i] # "*" THEN {}
    ELSE { [end |-> j, repl |-> SubSeq(s, i + 1, j - 1)] :
           j \in { j \in (i + 1)..Len(s) :
                   /\ s[j] = "*"
                   /\ \A k \in (i + 1)..(j - 1) : s[k] \notin {"*", "\n"} } }

\* the end of #{1,6} started at i
HashEnd(s, i) ==
    { h \in i..(i + 5) : /\ h <= Len(s)
                         /\ \A k \in i..h : s[k] = "#"
                         /\ (h = i + 5 \/ h = Len(s) \/ s[h + 1] # "#") }

\* line 111: #{1,6}\s*
Heading(s, i) ==
    IF s[i] # "#" THEN {}
    ELSE UNION { { Removed(e) : e \in SpaceEnd(s, h + 1) } : h \in HashEnd(s, i) }

\* ^ with re.MULTILINE
LineStart(s, i) == i = 1 \/ s[i - 1] = "\n"

\* line 114: ^\s*[-BULLET]\s* with MULTILINE
Bullet(s, i) ==
    IF ~LineStart(s, i) THEN {}
    ELSE UNION { { Removed(e) : e \in SpaceEnd(s, w + 2) }
                 : w \in { w \in SpaceEnd(s, i) :
                           w + 1 <= Len(s) /\ s[w + 1] \in {"-", "BULLET"} } }

\* line 117: ^\s*\d+\.\s* with MULTILINE
NumberedItem(s, i) ==
    IF ~LineStart(s, i) THEN {}
    ELSE UNION { UNION { { Removed(e) : e \in SpaceEnd(s, d + 2) }
                         : d \in { d \in NumberEnd(s, w + 1) : At(s, d + 1, <<".">>) } }
                 : w \in SpaceEnd(s, i) }

\* the newlines of s[i..r]
NewlinesIn(s, i, r) == { k \in i..r : s[k] = "\n" }

\* line 120: \n\s*\n\s*\n+ -> \n\n.  The match lies in the run of whitespace
\* that starts at i, needs three newlines of it and, both \s* being greedy,
\* ends at the run's last newline.
BlankLines(s, i) ==
    IF s[i] # "\n" THEN {}
    ELSE UNION { { [end |-> e, repl |-> <<"\n", "\n">>] :
                   e \in { e \in NewlinesIn(s, i, r) :
                           \A k \in NewlinesIn(s, i, r) : k <= e } }
                 : r \in { r \in SpaceEnd(s, i) :
                           Cardinality(NewlinesIn(s, i, r)) >= 3 } }

\* line 121: ' {2,}' -> ' '
Spaces(s, i) ==
    IF ~At(s, i, <<" ", " ">>) THEN {}
    ELSE { [end |-> e, repl |-> <<" ">>] :
           e \in { e \in i..Len(s) : /\ \A k \in i..e : s[k] = " "
                                     /\ (e = Len(s) \/ s[e + 1] # " ") } }

\* line 122: \t -> ' '
Tab(s, i) == IF s[i] = "\t" THEN { [end |-> i, repl |-> <<" ">>] } ELSE {}

\* line 383: \s+ -> ' '
WhitespaceRun(s, i) ==
    IF ~IsSpace(s[i]) THEN {}
    ELSE { [end |-> e, repl |-> <<" ">>] : e \in SpaceEnd(s, i) }

(***************************************************************************)
(* re.sub(pattern, repl, s).  MatchAt(pattern, s, i) is the set of the     *)
(* pattern's matches that start at position i (empty, or the one match the *)
(* regex engine takes), each [end |-> its last position, repl |-> what     *)
(* replaces it].  No pattern of the source matches the empty string.       *)
(***************************************************************************)
MatchAt(pattern, s, i) ==
    CASE pattern = "ClockMarker" -> ClockMarker(s, i)
      [] pattern = "DurationMarker" -> DurationMarker(s, i)
      [] pattern = "Bracketed" -> Bracketed(s, i)
      [] pattern = "Bold" -> Bold(s, i)
      [] pattern = "Italic" -> Italic(s, i)
      [] pattern = "Heading" -> Heading(s, i)
      [] pattern = "Bullet" -> Bullet(s, i)
      [] pattern = "NumberedItem" -> NumberedItem(s, i)
      [] pattern = "BlankLines" -> BlankLines(s, i)
      [] pattern = "Spaces" -> Spaces(s, i)
      [] pattern = "Tab" -> Tab(s, i)
      [] pattern = "WhitespaceRun" -> WhitespaceRun(s, i)

RECURSIVE Sub(_, _, _)
SubMatch(pattern, s, m) == m.repl \o Sub(pattern, s, m.end + 1)

Sub(pattern, s, i) ==
    IF i > Len(s) THEN <<>>
    ELSE IF MatchAt(pattern, s, i) = {} THEN <<s[i]>> \o Sub(pattern, s, i + 1)
    ELSE SubMatch(pattern, s, CHOOSE m \in MatchAt(pattern, s, i) : TRUE)

\* lines 130-135: "Skip obvious metadata or instruction lines"
IsInstructionLine(line_stripped) ==
    \/ line_stripped = <<>>
    \/ StartsWith(line_stripped, <<"N", "o", "t", "e", ":">>)
    \/ StartsWith(line_stripped, <<"I", "n", "s", "t", "r", "u", "c", "t", "i", "o", "n", ":">>)
    \/ StartsWith(line_stripped, <<"T", "e", "a", "c", "h", "e", "r", ":">>)
    \/ Contains(Lower(line_stripped), <<"v", "i", "s", "u", "a", "l", " ", "a", "i", "d">>)
    \/ Contains(Lower(line_stripped), <<"s", "h", "o", "w", " ", "s", "l", "i", "d", "e">>)

KeepLine(line) == ~IsInstructionLine(Strip(line))

\* lines 125-139
DropInstructionLines(content) ==
    Strip(JoinLines(SelectSeq(SplitLines(content), KeepLine)))

\* lines 102-122, in the order of the source
StripMarkup(content) ==
    Sub("Tab", Sub("Spaces", Sub("BlankLines", Sub("NumberedItem",
    Sub("Bullet", Sub("Heading", Sub("Italic", Sub("Bold", Sub("Bracketed",
    Sub("DurationMarker", Sub("ClockMarker", content, 1), 1), 1), 1), 1),
    1), 1), 1), 1), 1), 1)

clean_segment_content_for_tts(content) == DropInstructionLines(StripMarkup(content))

(***************************************************************************)
(* split_text_into_chunks                                                  *)
(***************************************************************************)
\* self.max_chars_per_chunk: 4000 in the source, small here so that the
\* bounded texts exceed it
max_chars_per_chunk == 12

\* line 420: chunks of at most this many characters are dropped
NoiseThreshold == 10

\* text.split('\n\n')
RECURSIVE SplitParagraphs(_)
SplitParagraphAt(s, k) ==
    <<SubSeq(s, 1, k - 1)>> \o SplitParagraphs(SubSeq(s, k + 2, Len(s)))

SplitParagraphs(s) ==
    IF \A i \in 1..Len(s) : ~At(s, i, <<"\n", "\n">>) THEN <<s>>
    ELSE SplitParagraphAt(s, CHOOSE i \in 1..Len(s) :
             /\ At(s, i, <<"\n", "\n">>)
             /\ \A j \in 1..(i - 1) : ~At(s, j, <<"\n", "\n">>))

\* (?<=[.!?])\s+ matched at position i: the end of the whitespace run
SentenceBreak(s, i) ==
    IF i > 1 /\ s[i - 1] \in {".", "!", "?"} /\ IsSpace(s[i])
    THEN SpaceEnd(s, i) ELSE {}

\* re.split(r'(?<=[.!?])\s+', s): the pieces of s from position start on,
\* the scan being at position i
RECURSIVE SplitSentences(_, _, _)
SplitSentenceAt(s, start, i, e) ==
    <<SubSeq(s, start, i - 1)>> \o SplitSentences(s, e + 1, e + 1)

SplitSentences(s, start, i) ==
    IF i > Len(s) THEN <<SubSeq(s, start, Len(s))>>
    ELSE IF SentenceBreak(s, i) = {} THEN SplitSentences(s, start, i + 1)
    ELSE SplitSentenceAt(s, start, i, CHOOSE e \in SentenceBreak(s, i) : TRUE)

\* the length of the piece to be added left out of the comparison
CloseIfFullIgnoringPiece(st, n) ==
    IF Len(st.current_chunk) > max_chars_per_chunk /\ st.current_chunk # <<>>
    THEN [chunks |-> Append(st.chunks, Strip(st.current_chunk)),
          current_chunk |-> <<>>]
    ELSE st

\* lines 392-394 and 407-409: save the current chunk when n more characters
\* would exceed the limit; st is [chunks, current_chunk]
CloseIfFull(st, n) ==
    IF Len(st.current_chunk) + n > max_chars_per_chunk /\ st.current_chunk # <<>>
    THEN [chunks |-> Append(st.chunks, Strip(st.current_chunk)),
          current_chunk |-> <<>>]
    ELSE st

\* lines 397-400 and 411-414
AddToChunk(st, separator, piece) ==
    [st EXCEPT !.current_chunk =
        IF st.current_chunk # <<>> THEN st.current_chunk \o separator \o piece
        ELSE piece]

\* lines 406-414
RECURSIVE SentenceLoop(_, _, _)
SentenceLoop(sentences, i, st) ==
    IF i > Len(sentences) THEN st
    ELSE SentenceLoop(sentences, i + 1,
             AddToChunk(CloseIfFull(st, Len(sentences[i]) + 1), <<" ">>,
                        sentences[i]))

\* lines 403-414: "If a single paragraph is too long, split by sentences"
SplitLongChunk(st) ==
    IF Len(st.current_chunk) > max_chars_per_chunk
    THEN SentenceLoop(SplitSentences(st.current_chunk, 1, 1), 1,
                      [chunks |-> st.chunks, current_chunk |-> <<>>])
    ELSE st

\* lines 390-414
RECURSIVE ParagraphLoop(_, _, _)
ParagraphLoop(paragraphs, i, st) ==
    IF i > Len(paragraphs) THEN st
    ELSE ParagraphLoop(paragraphs, i + 1,
             SplitLongChunk(
                 AddToChunk(CloseIfFull(st, Len(paragraphs[i]) + 2),
                            <<"\n", "\n">>, paragraphs[i])))

\* the chunk being built when the loop ends is left out
AddLastChunkForgotten(st) == st.chunks

\* lines 416-418
AddLastChunk(st) ==
    IF Strip(st.current_chunk) # <<>>
    THEN Append(st.chunks, Strip(st.current_chunk))
    ELSE st.chunks

\* line 420
IsNotNoise(chunk) == Len(Strip(chunk)) > NoiseThreshold

split_text_into_chunks(text) ==
    SelectSeq(
        AddLastChunk(
            ParagraphLoop(SplitParagraphs(Sub("WhitespaceRun", Strip(text), 1)), 1,
                          [chunks |-> <<>>, current_chunk |-> <<>>])),
        IsNotNoise)

(***************************************************************************)
(* The content cleaner applied to a segment's content, and applied again   *)
(* to its own result.                                                      *)
(***************************************************************************)
MaxCleanTokens == 3

CleanTokens ==
    { <<"-", " ">>, <<"1", ".", " ">>, <<"a">>, <<"\n">>, <<"[">>, <<"]">>,
      <<"*">>, <<"#">> }

RECURSIVE Concat(_)
Concat(ss) == IF ss = <<>> THEN <<>> ELSE Head(ss) \o Concat(Tail(ss))

CleanInit ==
    /\ clean_input \in
           { Concat(ts) : ts \in UNION { [1..n -> CleanTokens] :
                                            n \in 0..MaxCleanTokens } }
    /\ clean_once = <<>>
    /\ clean_twice = <<>>
    /\ clean_pc = "start"
    /\ Idle("clean")

CleanFirst ==
    /\ clean_pc = "start"
    /\ clean_once' = clean_segment_content_for_tts(clean_input)
    /\ clean_pc' = "once"
    /\ UNCHANGED <<clean_input, clean_twice>>
    /\ UNCHANGED <<parseVars, chunkVars, scriptVars, audioVars, batchVars,
                   voiceVars>>

CleanAgain ==
    /\ clean_pc = "once"
    /\ clean_twice' = clean_segment_content_for_tts(clean_once)
    /\ clean_pc' = "twice"
    /\ UNCHANGED <<clean_input, clean_once>>
    /\ UNCHANGED <<parseVars, chunkVars, scriptVars, audioVars, batchVars,
                   voiceVars>>

CleanNext == CleanFirst \/ CleanAgain

SpecClean == CleanInit /\ [][CleanNext]_vars

(***************************************************************************)
(* The chunker applied to a text.                                          *)
(***************************************************************************)
MaxChunkTokens == 4

\* sentences of 3, 4, 8, 12 and 26 characters (the budget is 12), each
\* followed by a blank; a word without full stop; a paragraph break
ChunkTokens ==
    { <<"H", "i", ".", " ">>,
      <<"Y", "e", "s", "!", " ">>,
      <<"W", "h", "y", " ", "n", "o", "t", "?", " ">>,
      <<"H", "e", "l", "l", "o", " ", "w", "o", "r", "l", "d", ".", " ">>,
      <<"A", " ", "v", "e", "r", "y", " ", "l", "o", "n", "g", " ", "s", "e", "n", "t", "e", "n", "c", "e", " ", "h", "e", "r", "e", "!", " ">>,
      <<"w", "o", "r", "d">>,
      <<"\n", "\n">> }

ChunkInit ==
    /\ chunk_text \in
           { Concat(ts) : ts \in UNION { [1..n -> ChunkTokens] :
                                            n \in 0..MaxChunkTokens } }
    /\ chunks = <<>>
    /\ chunk_pc = "start"
    /\ Idle("chunk")

SplitText ==
    /\ chunk_pc = "start"
    /\ chunks' = split_text_into_chunks(chunk_text)
    /\ chunk_pc' = "done"
    /\ UNCHANGED chunk_text
    /\ UNCHANGED <<parseVars, cleanVars, scriptVars, audioVars, batchVars,
                   voiceVars>>

ChunkNext == SplitText

SpecChunk == ChunkInit /\ [][ChunkNext]_vars

(***************************************************************************)
(* ContentProcessor.generate_script_pdf_bytes: validate the URL, download, *)
(* extract the text, check its length, ask the LLM for a script, render.   *)
(***************************************************************************)

\* content_processor.py line 197
MinContentLength == 100

\* the two tests joined by "or" instead of "and"
is_valid_pdf_url_either(pdf_url) ==
    IF pdf_url = <<>> \/ pdf_url = <<"N", "U", "L", "L">>
    THEN FALSE
    ELSE \/ StartsWith(Strip(Lower(pdf_url)), <<"h", "t", "t", "p", ":", "/", "/">>)
         \/ StartsWith(Strip(Lower(pdf_url)), <<"h", "t", "t", "p", "s", ":", "/", "/">>)
         \/ EndsWith(Strip(Lower(pdf_url)), <<".", "p", "d", "f">>)

\* lines 26-35
is_valid_pdf_url(pdf_url) ==
    IF pdf_url = <<>> \/ pdf_url = <<"N", "U", "L", "L">>
    THEN FALSE
    ELSE /\ \/ StartsWith(Strip(Lower(pdf_url)), <<"h", "t", "t", "p", ":", "/", "/">>)
            \/ StartsWith(Strip(Lower(pdf_url)), <<"h", "t", "t", "p", "s", ":", "/", "/">>)
         /\ EndsWith(Strip(Lower(pdf_url)), <<".", "p", "d", "f">>)

\* str(n) for a non-negative integer
RECURSIVE Str(_)
Str(n) ==
    IF n < 10
    THEN <<<<"0", "1", "2", "3", "4", "5", "6", "7", "8", "9">>[n + 1]>>
    ELSE Str(n \div 10) \o Str(n % 10)

\* line 77: f"\n--- Page {page_num + 1} ---\n{page_text}\n"
PageBlock(page_num, page_text) ==
    <<"\n", "-", "-", "-", " ", "P", "a", "g", "e", " ">> \o Str(page_num + 1) \o <<" ", "-", "-", "-", "\n">> \o page_text \o <<"\n">>

\* lines 72-79: page_text is <<>> when the page has no text or its
\* extraction raised (the page is skipped either way)
RECURSIVE PagesLoop(_, _, _)
PagesLoop(pages, page_num, acc) ==
    IF page_num >= Len(pages) THEN acc
    ELSE PagesLoop(pages, page_num + 1,
                   IF pages[page_num + 1] # <<>>
                   THEN acc \o PageBlock(page_num, pages[page_num + 1])
                   ELSE acc)

MaxPages == 2

\* what a page yields: nothing, a blank, or 30, 84 or 85 letters
PageTexts ==
    { <<>>, <<" ">> } \cup { [i \in 1..n |-> "x"] : n \in {30, 84, 85} }

\* URLs with and without surrounding blanks, with several schemes and
\* endings, in both cases of letters
Urls ==
    { l \o sch \o b \o suf \o t :
        l \in { <<>>, <<" ">> },
        sch \in { <<"h", "t", "t", "p", ":", "/", "/">>, <<"h", "t", "t", "p", "s", ":", "/", "/">>, <<"H", "T", "T", "P", ":", "/", "/">>, <<"f", "t", "p", ":", "/", "/">>, <<>> },
        b \in { <<"a">>, <<>> },
        suf \in { <<".", "p", "d", "f">>, <<".", "P", "D", "F">>, <<".", "p", "d", "f", "?", "x">>, <<".", "t", "x", "t">>, <<>> },
        t \in { <<>>, <<" ">> } } \cup { <<"N", "U", "L", "L">> }

ScriptInit ==
    /\ pdf_source_url \in Urls
    /\ response \in { "http_error", "empty", "not_pdf", "corrupt_pdf", "pdf" }
    /\ pdf_pages \in UNION { [1..n -> PageTexts] : n \in 0..MaxPages }
    /\ (response # "pdf" => pdf_pages = <<>>)
    /\ pdf_text = <<>>
    /\ extracted = None
    /\ script_result = None
    /\ script_error = ""
    /\ fetch_calls = 0
    /\ extract_calls = 0
    /\ llm_calls = 0
    /\ script_pc = "validate"
    /\ Idle("script")

\* lines 192-193
RejectUrl ==
    /\ script_pc = "validate"
    /\ ~is_valid_pdf_url(pdf_source_url)
    /\ script_error' = "Invalid PDF URL"
    /\ script_pc' = "done"
    /\ UNCHANGED <<pdf_source_url, response, pdf_pages, pdf_text, extracted,
                   script_result, fetch_calls, extract_calls, llm_calls>>
    /\ UNCHANGED <<parseVars, cleanVars, chunkVars, audioVars, batchVars,
                   voiceVars>>

\* lines 192, 195 and 37-64: the URL is valid (it is checked again at line
\* 42), requests.get is called; an HTTP error, an empty body and a body
\* without the %PDF magic all end as "Failed to download PDF"
DownloadPdf ==
    /\ script_pc = "validate"
    /\ is_valid_pdf_url(pdf_source_url)
    /\ fetch_calls' = fetch_calls + 1
    /\ IF response \in {"http_error", "empty", "not_pdf"}
       THEN script_error' = "Failed to download PDF" /\ script_pc' = "done"
       ELSE script_error' = script_error /\ script_pc' = "extract"
    /\ UNCHANGED <<pdf_source_url, response, pdf_pages, pdf_text, extracted,
                   script_result, extract_calls, llm_calls>>
    /\ UNCHANGED <<parseVars, cleanVars, chunkVars, audioVars, batchVars,
                   voiceVars>>

\* lines 196 and 66-89: PdfReader raises on a corrupt file; no text at all
\* raises "No text could be extracted from PDF"; both are re-raised as
\* "Failed to extract PDF text"; otherwise text.strip() is returned
ExtractText ==
    /\ script_pc = "extract"
    /\ extract_calls' = extract_calls + 1
    /\ pdf_text' = IF response = "corrupt_pdf" THEN <<>>
               ELSE PagesLoop(pdf_pages, 0, <<>>)
    /\ IF response = "corrupt_pdf" \/ Strip(pdf_text') = <<>>
       THEN /\ script_error' = "Failed to extract PDF text"
            /\ script_pc' = "done"
            /\ extracted' = extracted
       ELSE /\ script_error' = script_error
            /\ script_pc' = "check"
            /\ extracted' = Strip(pdf_text')
    /\ UNCHANGED <<pdf_source_url, response, pdf_pages, script_result,
                   fetch_calls, llm_calls>>
    /\ UNCHANGED <<parseVars, cleanVars, chunkVars, audioVars, batchVars,
                   voiceVars>>

\* "<=" instead of "<"
TooShortOrEqual(extracted_text) == Len(extracted_text) <= MinContentLength

\* lines 197-198
TooShort(extracted_text) == Len(extracted_text) < MinContentLength

CheckLength ==
    /\ script_pc = "check"
    /\ IF TooShort(extracted)
       THEN script_error' = "PDF content too short" /\ script_pc' = "done"
       ELSE script_error' = script_error /\ script_pc' = "llm"
    /\ UNCHANGED <<pdf_source_url, response, pdf_pages, pdf_text, extracted,
                   script_result, fetch_calls, extract_calls, llm_calls>>
    /\ UNCHANGED <<parseVars, cleanVars, chunkVars, audioVars, batchVars,
                   voiceVars>>

\* an empty completion is asked for again
CreateScriptAskingAgain ==
    /\ script_pc = "llm"
    /\ llm_calls' = llm_calls + 1
    /\ \E completion \in {"raise", "empty", "script"} :
         IF completion = "script"
         THEN script_error' = script_error /\ script_pc' = "render"
         ELSE IF completion = "empty" /\ llm_calls = 0
         THEN script_error' = script_error /\ script_pc' = "llm"
         ELSE /\ script_error' = IF completion = "empty"
                                 THEN "OpenAI returned an empty script"
                                 ELSE "OpenAI error"
              /\ script_pc' = "done"
    /\ UNCHANGED <<pdf_source_url, response, pdf_pages, pdf_text, extracted,
                   script_result, fetch_calls, extract_calls>>
    /\ UNCHANGED <<parseVars, cleanVars, chunkVars, audioVars, batchVars,
                   voiceVars>>

\* lines 200-205 and 91-149: one completion call; it may raise, return an
\* empty script (ValueError) or return a script.  (The API key tested at
\* lines 95-96 is there: the constructor, lines 17-19, refuses to build a
\* ContentProcessor without it.)
CreateScript ==
    /\ script_pc = "llm"
    /\ llm_calls' = llm_calls + 1
    /\ \E completion \in {"raise", "empty", "script"} :
         IF completion = "script"
         THEN script_error' = script_error /\ script_pc' = "render"
         ELSE /\ script_error' = IF completion = "empty"
                                 THEN "OpenAI returned an empty script"
                                 ELSE "OpenAI error"
              /\ script_pc' = "done"
    /\ UNCHANGED <<pdf_source_url, response, pdf_pages, pdf_text, extracted,
                   script_result, fetch_calls, extract_calls>>
    /\ UNCHANGED <<parseVars, cleanVars, chunkVars, audioVars, batchVars,
                   voiceVars>>

\* lines 207-219
RenderAndReturn ==
    /\ script_pc = "render"
    /\ script_result' = [source_url |-> pdf_source_url]
    /\ script_pc' = "done"
    /\ UNCHANGED <<pdf_source_url, response, pdf_pages, pdf_text, extracted,
                   script_error, fetch_calls, extract_calls, llm_calls>>
    /\ UNCHANGED <<parseVars, cleanVars, chunkVars, audioVars, batchVars,
                   voiceVars>>

ScriptNext ==
    \/ RejectUrl
    \/ DownloadPdf
    \/ ExtractText
    \/ CheckLength
    \/ CreateScript
    \/ RenderAndReturn

SpecScript ==
    ScriptInit /\ [][ScriptNext]_vars

(***************************************************************************)
(* Audio.  A file holds a sequence of runs of samples: the speech of one   *)
(* chunk of one segment, or zero-valued samples appended to one segment.   *)
(* Durations are counted in samples; every file of a job has the sample    *)
(* rate of the TTS output, so seconds are samples / sample_rate.           *)
(***************************************************************************)

\* speech_generator.py line 54
sample_rate == 24000

\* Python's None in a field that otherwise holds a string
NoneStr == "None"

Speech(order, chunk, n) ==
    <<[kind |-> "speech", seg |-> order, chunk |-> chunk, n |-> n]>>

\* np.zeros(n): nothing at all when n = 0
Silence(order, n) ==
    IF n > 0
    THEN <<[kind |-> "silence", seg |-> order, chunk |-> 0, n |-> n]>>
    ELSE <<>>

\* len(audio_data)
RECURSIVE Samples(_)
Samples(audio) ==
    IF audio = <<>> THEN 0 ELSE Head(audio).n + Samples(Tail(audio))

\* round(num / den, 2), in hundredths (whole part and fraction apart, to
\* stay within TLC's integers)
RoundTo2(num, den) ==
    100 * (num \div den) + (200 * (num % den) + den) \div (2 * den)

\* sf.write, open(..., 'w')
WriteFile(fs, name, content) ==
    [f \in DOMAIN fs \cup {name} |-> IF f = name THEN content ELSE fs[f]]

\* Path.unlink, os.remove
RemoveFiles(fs, names) == [f \in DOMAIN fs \ names |-> fs[f]]

\* the names of the files of a job
SpeechPath(order) == <<"speech", order>>
FinalPath(order) == <<"final", order>>
PlaylistPath == <<"playlist", 0>>
CombinedPath == <<"combined", 0>>

\* lines 295-302: 0.0 when the file cannot be read
get_audio_duration(fs, audio_path) ==
    IF audio_path \in DOMAIN fs THEN Samples(fs[audio_path]) ELSE 0

\* lines 248-271: the arrays read from the files, concatenated in order
RECURSIVE ConcatFiles(_, _)
ConcatFiles(fs, audio_files) ==
    IF audio_files = <<>> THEN <<>>
    ELSE fs[Head(audio_files)] \o ConcatFiles(fs, Tail(audio_files))

\* the files joined with 30 seconds of silence between neighbours
RECURSIVE ConcatFilesWithGaps(_, _)
ConcatFilesWithGaps(fs, audio_files) ==
    IF audio_files = <<>> THEN <<>>
    ELSE IF Len(audio_files) = 1 THEN fs[Head(audio_files)]
    ELSE fs[Head(audio_files)] \o Silence(-1, 30 * sample_rate)
             \o ConcatFilesWithGaps(fs, Tail(audio_files))

\* a silence of 30 seconds put between every two files
combine_audio_files_with_gaps(fs, audio_files, output_path) ==
    IF \/ audio_files = <<>>
       \/ \E i \in 1..Len(audio_files) : audio_files[i] \notin DOMAIN fs
    THEN [success |-> FALSE, files |-> fs]
    ELSE [success |-> TRUE,
          files |-> WriteFile(fs, output_path,
                              ConcatFilesWithGaps(fs, audio_files))]

\* an empty list of files gives an empty combined file
combine_audio_files_of_nothing(fs, audio_files, output_path) ==
    IF \E i \in 1..Len(audio_files) : audio_files[i] \notin DOMAIN fs
    THEN [success |-> FALSE, files |-> fs]
    ELSE [success |-> TRUE,
          files |-> WriteFile(fs, output_path, ConcatFiles(fs, audio_files))]

\* lines 245-279: sf.read raises on a missing file and an empty list gives
\* no audio; both return False and write nothing
combine_audio_files(fs, audio_files, output_path) ==
    IF \/ audio_files = <<>>
       \/ \E i \in 1..Len(audio_files) : audio_files[i] \notin DOMAIN fs
    THEN [success |-> FALSE, files |-> fs]
    ELSE [success |-> TRUE,
          files |-> WriteFile(fs, output_path, ConcatFiles(fs, audio_files))]

\* lines 304-330, durations in samples.  io_ok is FALSE when sf.read or
\* sf.write raises; lost is the one sample that int() may drop from the
\* floating-point product sample_rate * silence_duration
extend_audio_with_silence(fs, audio_path, target, output_path, io_ok, lost) ==
    IF ~io_ok \/ audio_path \notin DOMAIN fs
    THEN [success |-> FALSE, files |-> fs]
    ELSE IF Samples(fs[audio_path]) >= target
    THEN [success |-> TRUE, files |-> WriteFile(fs, output_path, fs[audio_path])]
    ELSE [success |-> TRUE,
          files |-> WriteFile(fs, output_path,
                       fs[audio_path] \o
                       Silence(Head(fs[audio_path]).seg,
                               target - Samples(fs[audio_path]) - lost))]

(***************************************************************************)
(* generate_timed_lesson_audio: extract the script, make the job           *)
(* directory, generate the segments (generate_timed_audio_segments_with_   *)
(* pauses: parse, then per segment clean, synthesize, extend or copy,      *)
(* record), combine them, upload, clean up.                                *)
(***************************************************************************)
MaxJobBlocks == 3

\* pieces of script text: a marker with a short text, a marker with a text
\* longer than a chunk, a marker with a stage direction only, a marker
\* alone, a text alone
JobBlocks ==
    { <<"[", "H", "o", "o", "k", ":", " ", "1", "-", "2", " ", "m", "i", "n", "u", "t", "e", "s", "]", "\n", "H", "i", " ", "a", "l", "l", ".">>,
      <<"[", "R", "e", "c", "a", "p", ":", " ", "2", "-", "3", " ", "m", "i", "n", "u", "t", "e", "s", "]", "\n", "H", "e", "l", "l", "o", " ", "w", "o", "r", "l", "d", ".", " ", "H", "e", "l", "l", "o", " ", "t", "h", "e", "r", "e", ".">>,
      <<"[", "H", "o", "o", "k", ":", " ", "1", "-", "2", " ", "m", "i", "n", "u", "t", "e", "s", "]", "\n", "[", "a", "s", "i", "d", "e", "]">>,
      <<"[", "R", "e", "c", "a", "p", ":", " ", "2", "-", "3", " ", "m", "i", "n", "u", "t", "e", "s", "]">>,
      <<"H", "i", " ", "a", "l", "l", ".">> }

\* what the TTS service returns for one request: speech one sample short
\* of a minute, or exactly one minute; 0 stands for a failed request
SpeechLengths == { 60 * sample_rate - 1, 60 * sample_rate }

AudioInit ==
    /\ job_script \in
           { JoinLines(bs) : bs \in UNION { [1..n -> JobBlocks] :
                                              n \in 1..MaxJobBlocks } }
           \cup {<<>>}
    /\ job_dir = FALSE
    /\ files = <<>>
    /\ job_segments = <<>>
    /\ seg_idx = 0
    /\ speech_duration = 0
    /\ segment_files = <<>>
    /\ playlist_data = None
    /\ segment_result = None
    /\ result = [success |-> FALSE, audio_url |-> NoneStr, error |-> NoneStr]
    /\ tts_calls = 0
    /\ measured = <<>>
    /\ final_durations = <<>>
    /\ audio_pc = "extract"
    /\ Idle("audio")

\* lines 605-611
ExtractScriptFails ==
    /\ audio_pc = "extract"
    /\ job_script = <<>>
    /\ result' = [result EXCEPT !.error = "Failed to extract script text from PDF"]
    /\ audio_pc' = "done"
    /\ UNCHANGED <<job_script, job_dir, files, job_segments, seg_idx, speech_duration,
                   segment_files, playlist_data, segment_result, tts_calls,
                   measured, final_durations>>
    /\ UNCHANGED <<parseVars, cleanVars, chunkVars, scriptVars, batchVars,
                   voiceVars>>

\* sum(s.duration_min for s in segments), line 449
RECURSIVE SumDurationMin(_)
SumDurationMin(segs) ==
    IF segs = <<>> THEN 0 ELSE Head(segs).duration_min + SumDurationMin(Tail(segs))

\* line 450
RECURSIVE SumDurationMax(_)
SumDurationMax(segs) ==
    IF segs = <<>> THEN 0 ELSE Head(segs).duration_max + SumDurationMax(Tail(segs))

\* lines 613-627 and 430-437: the script has no segment
NoSegmentsFound ==
    /\ audio_pc = "extract"
    /\ job_script # <<>>
    /\ parse_lecture_segments(job_script) = <<>>
    /\ job_dir' = TRUE
    /\ job_segments' = <<>>
    /\ segment_result' = [success |-> FALSE, error |-> "No segments found in script"]
    /\ result' = [result EXCEPT !.error = "No segments found in script"]
    /\ audio_pc' = "done"
    /\ UNCHANGED <<job_script, files, seg_idx, speech_duration, segment_files,
                   playlist_data, tts_calls, measured, final_durations>>
    /\ UNCHANGED <<parseVars, cleanVars, chunkVars, scriptVars, batchVars,
                   voiceVars>>

\* lines 613-623 and 430-451
BeginSegments ==
    /\ audio_pc = "extract"
    /\ job_script # <<>>
    /\ parse_lecture_segments(job_script) # <<>>
    /\ job_dir' = TRUE
    /\ job_segments' = parse_lecture_segments(job_script)
    /\ seg_idx' = 1
    /\ segment_files' = <<>>
    /\ playlist_data' =
           [total_segments |-> Len(job_segments'),
            segments |-> <<>>,
            total_duration_min |-> SumDurationMin(job_segments'),
            total_duration_max |-> SumDurationMax(job_segments')]
    /\ audio_pc' = "segment"
    /\ UNCHANGED <<job_script, files, speech_duration, segment_result, result,
                   tts_calls, measured, final_durations>>
    /\ UNCHANGED <<parseVars, cleanVars, chunkVars, scriptVars, batchVars,
                   voiceVars>>

\* lines 339-347: the texts sent to the TTS service for one segment
TtsTexts(clean_content) ==
    IF Len(clean_content) <= max_chars_per_chunk
    THEN <<clean_content>>
    ELSE split_text_into_chunks(clean_content)

\* what the service answers to each request of a segment
TtsOutcomes(texts) == [1..Len(texts) -> SpeechLengths \cup {0}]

\* lines 341 and 351-362: every request succeeded (and there was one)
AllSynthesized(outcome) ==
    /\ DOMAIN outcome # {}
    /\ \A i \in DOMAIN outcome : outcome[i] > 0

\* requests made: the loop at lines 351-362 stops at the first failure
RequestsMade(outcome) ==
    Cardinality({ i \in DOMAIN outcome :
                    \A j \in 1..(i - 1) : outcome[j] > 0 })

\* lines 237-238 and 365: the speech file of a segment
RECURSIVE SpeechAudio(_, _, _)
SpeechAudio(order, outcome, i) ==
    IF i > Len(outcome) THEN <<>>
    ELSE Speech(order, i, outcome[i]) \o SpeechAudio(order, outcome, i + 1)

\* a TTS request is made for the empty segment before it is skipped
SkipEmptySegmentAfterRequest ==
    /\ audio_pc = "segment"
    /\ seg_idx <= Len(job_segments)
    /\ Strip(clean_segment_content_for_tts(job_segments[seg_idx].content)) = <<>>
    /\ seg_idx' = seg_idx + 1
    /\ tts_calls' = tts_calls + 1
    /\ UNCHANGED <<job_script, job_dir, files, job_segments, speech_duration,
                   segment_files, playlist_data, segment_result, result,
                   measured, final_durations, audio_pc>>
    /\ UNCHANGED <<parseVars, cleanVars, chunkVars, scriptVars, batchVars,
                   voiceVars>>

\* lines 453-460
SkipEmptySegment ==
    /\ audio_pc = "segment"
    /\ seg_idx <= Len(job_segments)
    /\ Strip(clean_segment_content_for_tts(job_segments[seg_idx].content)) = <<>>
    /\ seg_idx' = seg_idx + 1
    /\ UNCHANGED <<job_script, job_dir, files, job_segments, speech_duration,
                   segment_files, playlist_data, segment_result, result,
                   tts_calls, measured, final_durations, audio_pc>>
    /\ UNCHANGED <<parseVars, cleanVars, chunkVars, scriptVars, batchVars,
                   voiceVars>>

\* lines 453-481 and 332-378: a request fails, or no chunk is left to send
SpeechFails ==
    /\ audio_pc = "segment"
    /\ seg_idx <= Len(job_segments)
    /\ Strip(clean_segment_content_for_tts(job_segments[seg_idx].content)) # <<>>
    /\ \E outcome \in TtsOutcomes(TtsTexts(
                 clean_segment_content_for_tts(job_segments[seg_idx].content))) :
         /\ ~AllSynthesized(outcome)
         /\ tts_calls' = tts_calls + RequestsMade(outcome)
    /\ seg_idx' = seg_idx + 1
    /\ UNCHANGED <<job_script, job_dir, files, job_segments, speech_duration,
                   segment_files, playlist_data, segment_result, result,
                   measured, final_durations, audio_pc>>
    /\ UNCHANGED <<parseVars, cleanVars, chunkVars, scriptVars, batchVars,
                   voiceVars>>

\* lines 453-487 and 332-378: the speech file is written and measured
SpeechGenerated ==
    /\ audio_pc = "segment"
    /\ seg_idx <= Len(job_segments)
    /\ Strip(clean_segment_content_for_tts(job_segments[seg_idx].content)) # <<>>
    /\ \E outcome \in TtsOutcomes(TtsTexts(
                 clean_segment_content_for_tts(job_segments[seg_idx].content))) :
         /\ AllSynthesized(outcome)
         /\ tts_calls' = tts_calls + RequestsMade(outcome)
         /\ files' = WriteFile(files, SpeechPath(job_segments[seg_idx].order),
                         SpeechAudio(job_segments[seg_idx].order, outcome, 1))
    /\ speech_duration' =
           get_audio_duration(files', SpeechPath(job_segments[seg_idx].order))
    /\ measured' = Append(measured,
           [order |-> job_segments[seg_idx].order,
            speech |-> speech_duration',
            declared |-> job_segments[seg_idx].duration_min * 60 * sample_rate])
    /\ audio_pc' = "assemble"
    /\ UNCHANGED <<job_script, job_dir, job_segments, seg_idx, segment_files,
                   playlist_data, segment_result, result, final_durations>>
    /\ UNCHANGED <<parseVars, cleanVars, chunkVars, scriptVars, batchVars,
                   voiceVars>>

\* line 525: clean_content[:200] + "..." when longer than 200 characters
Preview(clean_content) ==
    IF Len(clean_content) > 200
    THEN SubSeq(clean_content, 1, 200) \o <<".", ".", ".">>
    ELSE clean_content

\* lines 514-526; the durations are given in samples
SegmentInfo(segment, final_duration, speech, silence_added, clean_content) ==
    [order |-> segment.order,
     title |-> segment.title,
     type |-> segment.segment_type,
     duration_min |-> segment.duration_min,
     duration_max |-> segment.duration_max,
     actual_duration_minutes |-> RoundTo2(final_duration, 60 * sample_rate),
     speech_duration_minutes |-> RoundTo2(speech, 60 * sample_rate),
     silence_added_seconds |-> RoundTo2(silence_added, sample_rate),
     audio_file |-> FinalPath(segment.order),
     content_length |-> Len(clean_content),
     cleaned_content_preview |-> Preview(clean_content)]

\* the segment is put in front of the playlist and of segment_files
RecordSegmentInFront(fs, segment, silence_added) ==
    /\ files' = RemoveFiles(fs, {SpeechPath(segment.order)})
    /\ final_durations' =
           <<get_audio_duration(files', FinalPath(segment.order))>> \o final_durations
    /\ playlist_data' =
           [playlist_data EXCEPT !.segments =
               <<SegmentInfo(segment,
                           get_audio_duration(files', FinalPath(segment.order)),
                           speech_duration, silence_added,
                           clean_segment_content_for_tts(segment.content))>> \o @]
    /\ segment_files' = <<FinalPath(segment.order)>> \o segment_files


\* lines 508-531, with fs the files left by the extension step: the speech
\* file is removed, the final file is measured (0.0 when it is missing) and
\* the segment is appended to the playlist and to segment_files
RecordSegment(fs, segment, silence_added) ==
    /\ files' = RemoveFiles(fs, {SpeechPath(segment.order)})
    /\ final_durations' =
           Append(final_durations, get_audio_duration(files', FinalPath(segment.order)))
    /\ playlist_data' =
           [playlist_data EXCEPT !.segments =
               Append(@, SegmentInfo(segment,
                           get_audio_duration(files', FinalPath(segment.order)),
                           speech_duration, silence_added,
                           clean_segment_content_for_tts(segment.content)))]
    /\ segment_files' = Append(segment_files, FinalPath(segment.order))

\* lines 489-502 and 508-531: the speech is shorter than the declared
\* minimum; the value returned by extend_audio_with_silence is not looked at
ExtendWithSilence ==
    /\ audio_pc = "assemble"
    /\ speech_duration < job_segments[seg_idx].duration_min * 60 * sample_rate
    /\ \E io_ok \in BOOLEAN, lost \in {0, 1} :
         RecordSegment(
             extend_audio_with_silence(
                 files, SpeechPath(job_segments[seg_idx].order),
                 job_segments[seg_idx].duration_min * 60 * sample_rate,
                 FinalPath(job_segments[seg_idx].order), io_ok, lost).files,
             job_segments[seg_idx],
             job_segments[seg_idx].duration_min * 60 * sample_rate - speech_duration)
    /\ seg_idx' = seg_idx + 1
    /\ audio_pc' = "segment"
    /\ UNCHANGED <<job_script, job_dir, job_segments, speech_duration,
                   segment_result, result, tts_calls, measured>>
    /\ UNCHANGED <<parseVars, cleanVars, chunkVars, scriptVars, batchVars,
                   voiceVars>>

\* lines 503-506 and 533-535: the speech is long enough.  The module
\* imported as sf at line 17 (soundfile) has no function copy, so line 505
\* raises AttributeError; the handler at line 533 logs it and goes on with
\* the next segment, leaving the speech file where it is.
CopySpeech ==
    /\ audio_pc = "assemble"
    /\ speech_duration >= job_segments[seg_idx].duration_min * 60 * sample_rate
    /\ seg_idx' = seg_idx + 1
    /\ audio_pc' = "segment"
    /\ UNCHANGED <<job_script, job_dir, files, job_segments, speech_duration,
                   segment_files, playlist_data, segment_result, result,
                   tts_calls, measured, final_durations>>
    /\ UNCHANGED <<parseVars, cleanVars, chunkVars, scriptVars, batchVars,
                   voiceVars>>

\* lines 537-549 and 625
SavePlaylist ==
    /\ audio_pc = "segment"
    /\ seg_idx > Len(job_segments)
    /\ files' = WriteFile(files, PlaylistPath, playlist_data)
    /\ segment_result' =
           [success |-> TRUE,
            segments_generated |-> Len(segment_files),
            segment_files |-> segment_files,
            playlist_file |-> PlaylistPath,
            playlist_data |-> playlist_data,
            total_duration_minutes |-> playlist_data.total_duration_min]
    /\ audio_pc' = "combine"
    /\ UNCHANGED <<job_script, job_dir, job_segments, seg_idx, speech_duration,
                   segment_files, playlist_data, result, tts_calls, measured,
                   final_durations>>
    /\ UNCHANGED <<parseVars, cleanVars, chunkVars, scriptVars, batchVars,
                   voiceVars>>

\* lines 629-641: the job returns without reaching the clean-up
CombineFails ==
    /\ audio_pc = "combine"
    /\ ~combine_audio_files(files, segment_result.segment_files, CombinedPath).success
    /\ result' = [result EXCEPT !.error = "Failed to combine audio segments"]
    /\ audio_pc' = "done"
    /\ UNCHANGED <<job_script, job_dir, files, job_segments, seg_idx,
                   speech_duration, segment_files, playlist_data,
                   segment_result, tts_calls, measured, final_durations>>
    /\ UNCHANGED <<parseVars, cleanVars, chunkVars, scriptVars, batchVars,
                   voiceVars>>

\* lines 629-641
CombineSegments ==
    /\ audio_pc = "combine"
    /\ combine_audio_files(files, segment_result.segment_files, CombinedPath).success
    /\ files' = combine_audio_files(files, segment_result.segment_files,
                                    CombinedPath).files
    /\ audio_pc' = "upload"
    /\ UNCHANGED <<job_script, job_dir, job_segments, seg_idx, speech_duration,
                   segment_files, playlist_data, segment_result, result,
                   tts_calls, measured, final_durations>>
    /\ UNCHANGED <<parseVars, cleanVars, chunkVars, scriptVars, batchVars,
                   voiceVars>>

\* lines 643-703: the storage client raises, or returns a URL, or returns
\* no URL; a failure of the table update at lines 672-687 is only logged
UploadCombined ==
    /\ audio_pc = "upload"
    /\ \E outcome \in {"raise", "url", "no_url"} :
         result' =
             IF outcome = "raise"
             THEN [result EXCEPT !.error = "Upload failed"]
             ELSE [success |-> TRUE,
                   audio_url |-> IF outcome = "url" THEN "signed_url" ELSE NoneStr,
                   error |-> NoneStr,
                   duration_minutes |->
                       RoundTo2(get_audio_duration(files, CombinedPath),
                                60 * sample_rate),
                   segments_count |-> Len(segment_result.segment_files)]
    /\ audio_pc' = "cleanup"
    /\ UNCHANGED <<job_script, job_dir, files, job_segments, seg_idx,
                   speech_duration, segment_files, playlist_data,
                   segment_result, tts_calls, measured, final_durations>>
    /\ UNCHANGED <<parseVars, cleanVars, chunkVars, scriptVars, batchVars,
                   voiceVars>>

\* lines 705-715: rmdir raises when a file is left in the directory, which
\* is only logged
CleanUp ==
    /\ audio_pc = "cleanup"
    /\ files' = RemoveFiles(files,
                    { segment_result.segment_files[i] :
                        i \in 1..Len(segment_result.segment_files) }
                    \cup {segment_result.playlist_file, CombinedPath})
    /\ job_dir' = (DOMAIN files' # {})
    /\ audio_pc' = "done"
    /\ UNCHANGED <<job_script, job_segments, seg_idx, speech_duration,
                   segment_files, playlist_data, segment_result, result,
                   tts_calls, measured, final_durations>>
    /\ UNCHANGED <<parseVars, cleanVars, chunkVars, scriptVars, batchVars,
                   voiceVars>>

AudioNext ==
    \/ ExtractScriptFails
    \/ NoSegmentsFound
    \/ BeginSegments
    \/ SkipEmptySegment
    \/ SpeechFails
    \/ SpeechGenerated
    \/ ExtendWithSilence
    \/ CopySpeech
    \/ SavePlaylist
    \/ CombineFails
    \/ CombineSegments
    \/ UploadCombined
    \/ CleanUp

SpecAudio == AudioInit /\ [][AudioNext]_vars

(***************************************************************************)
(* process_course_for_scripts (app.py): one course of the daily batch.     *)
(* Every PDF URL of every lesson is one unit: its script is generated,     *)
(* uploaded and recorded, and then its audio is generated.  What the       *)
(* collaborators do (content processor, storage client, speech generator)  *)
(* is chosen freely for every unit.                                        *)
(***************************************************************************)
MaxLessons == 2

\* the rows of a course: row i has id i; pdf_urls may be null in a row
LessonRows ==
    UNION { { [i \in 1..n |-> [id |-> i,
                               pdf_urls |-> u[i].pdf_urls,
                               pdf_urls_is_null |-> u[i].pdf_urls_is_null]] :
                u \in [1..n -> [pdf_urls : { <<>>, <<"a.pdf">>, <<"a.pdf", "b.pdf">> },
                                pdf_urls_is_null : {FALSE}]
                               \cup {[pdf_urls |-> <<>>, pdf_urls_is_null |-> TRUE]}] } :
            n \in 0..MaxLessons }

BatchInit ==
    /\ setup \in {"ok", "client_raises", "processor_raises"}
    /\ audio_enabled \in BOOLEAN
    /\ lessons_with_pdfs \in LessonRows
    /\ lesson_idx = 0
    /\ pdf_idx = 0
    /\ course_result = [lessons_processed |-> 0,
                        successful_generations |-> 0,
                        failed_generations |-> 0,
                        successful_audio_generations |-> 0,
                        failed_audio_generations |-> 0,
                        errors |-> <<>>]
    /\ unit_log = <<>>
    /\ returned = None
    /\ batch_pc = "setup"
    /\ Idle("batch")

\* the exception of the course set-up leaves the function
CourseFailsRaising ==
    /\ batch_pc = "setup"
    /\ \/ setup = "client_raises"
       \/ setup = "processor_raises" /\ lessons_with_pdfs # <<>>
    /\ batch_pc' = "raised"
    /\ UNCHANGED <<setup, audio_enabled, lessons_with_pdfs, lesson_idx, pdf_idx,
                   course_result, unit_log, returned>>
    /\ UNCHANGED <<parseVars, cleanVars, chunkVars, scriptVars, audioVars,
                   voiceVars>>

\* lines 212-231 and 363-370: SupabaseClient() raises at line 213, or
\* ContentProcessor is missing or raises at lines 224-227 (reached only with
\* a lesson to process)
CourseFails ==
    /\ batch_pc = "setup"
    /\ \/ setup = "client_raises"
       \/ setup = "processor_raises" /\ lessons_with_pdfs # <<>>
    /\ course_result' =
           [course_result EXCEPT
               !.lessons_processed =
                   IF setup = "client_raises" THEN 0 ELSE Len(lessons_with_pdfs),
               !.errors = Append(@, [course_id |-> "course",
                                     type |-> "course_processing",
                                     error |-> setup])]
    /\ returned' = course_result'
    /\ batch_pc' = "done"
    /\ UNCHANGED <<setup, audio_enabled, lessons_with_pdfs, lesson_idx, pdf_idx,
                   unit_log>>
    /\ UNCHANGED <<parseVars, cleanVars, chunkVars, scriptVars, audioVars,
                   voiceVars>>

\* lines 216-221
NoLessons ==
    /\ batch_pc = "setup"
    /\ setup # "client_raises"
    /\ lessons_with_pdfs = <<>>
    /\ returned' = course_result
    /\ batch_pc' = "done"
    /\ UNCHANGED <<setup, audio_enabled, lessons_with_pdfs, lesson_idx, pdf_idx,
                   course_result, unit_log>>
    /\ UNCHANGED <<parseVars, cleanVars, chunkVars, scriptVars, audioVars,
                   voiceVars>>

\* lines 216-234
BeginLessons ==
    /\ batch_pc = "setup"
    /\ setup = "ok"
    /\ lessons_with_pdfs # <<>>
    /\ course_result' =
           [course_result EXCEPT !.lessons_processed = Len(lessons_with_pdfs)]
    /\ lesson_idx' = 1
    /\ pdf_idx' = 1
    /\ batch_pc' = "lessons"
    /\ UNCHANGED <<setup, audio_enabled, lessons_with_pdfs, unit_log, returned>>
    /\ UNCHANGED <<parseVars, cleanVars, chunkVars, scriptVars, audioVars,
                   voiceVars>>

\* a failed audio generation is counted without an entry in the error list
AfterAudioWithoutEntry(res, lesson_id, enabled, audio_outcome) ==
    IF enabled /\ audio_outcome = "success"
    THEN [res EXCEPT !.successful_audio_generations = @ + 1]
    ELSE [res EXCEPT !.failed_audio_generations = @ + 1]

\* lines 287-338: the audio of a unit whose script has a file URL
AfterAudio(res, lesson_id, enabled, audio_outcome) ==
    IF enabled /\ audio_outcome = "success"
    THEN [res EXCEPT !.successful_audio_generations = @ + 1]
    ELSE [res EXCEPT
             !.failed_audio_generations = @ + 1,
             !.errors = Append(@,
                 [lesson_id |-> lesson_id,
                  type |-> IF enabled /\ audio_outcome = "failure"
                           THEN "timed_audio_generation"
                           ELSE "audio_generation",
                  error |-> IF enabled THEN audio_outcome
                            ELSE "No audio generators available"])]

\* a failed unit is not counted in failed_generations
AfterUnitUncounted(res, lesson_id, idx, enabled, script_outcome, audio_outcome) ==
    IF script_outcome \notin {"url", "no_url"}
    THEN [res EXCEPT
             !.errors = Append(@, [lesson_id |-> lesson_id,
                                   pdf_index |-> idx,
                                   type |-> "script_generation",
                                   error |-> script_outcome])]
    ELSE IF script_outcome = "no_url"
    THEN [res EXCEPT !.successful_generations = @ + 1]
    ELSE AfterAudio([res EXCEPT !.successful_generations = @ + 1],
                    lesson_id, enabled, audio_outcome)

\* the audio of a unit is counted whether or not its script was generated
AfterUnitAudioAlways(res, lesson_id, idx, enabled, script_outcome, audio_outcome) ==
    IF script_outcome \notin {"url", "no_url"}
    THEN AfterAudio([res EXCEPT
                        !.failed_generations = @ + 1,
                        !.errors = Append(@, [lesson_id |-> lesson_id,
                                              pdf_index |-> idx,
                                              type |-> "script_generation",
                                              error |-> script_outcome])],
                    lesson_id, enabled, audio_outcome)
    ELSE AfterAudio([res EXCEPT !.successful_generations = @ + 1],
                    lesson_id, enabled, audio_outcome)

\* a unit that fails after line 277 would be counted in both counters
AfterUnitCountingBoth(res, lesson_id, idx, enabled, script_outcome, audio_outcome) ==
    IF script_outcome \notin {"url", "no_url"}
    THEN [res EXCEPT
             !.successful_generations =
                 IF script_outcome = "record_raises" THEN @ + 1 ELSE @,
             !.failed_generations = @ + 1,
             !.errors = Append(@, [lesson_id |-> lesson_id,
                                   pdf_index |-> idx,
                                   type |-> "script_generation",
                                   error |-> script_outcome])]
    ELSE IF script_outcome = "no_url"
    THEN [res EXCEPT !.successful_generations = @ + 1]
    ELSE AfterAudio([res EXCEPT !.successful_generations = @ + 1],
                    lesson_id, enabled, audio_outcome)

\* lines 241-350: the result dict after one unit
AfterUnit(res, lesson_id, idx, enabled, script_outcome, audio_outcome) ==
    IF script_outcome \notin {"url", "no_url"}
    THEN [res EXCEPT
             !.failed_generations = @ + 1,
             !.errors = Append(@, [lesson_id |-> lesson_id,
                                   pdf_index |-> idx,
                                   type |-> "script_generation",
                                   error |-> script_outcome])]
    ELSE IF script_outcome = "no_url"
    THEN [res EXCEPT !.successful_generations = @ + 1]
    ELSE AfterAudio([res EXCEPT !.successful_generations = @ + 1],
                    lesson_id, enabled, audio_outcome)

\* lines 240-350: one pass of the loop over the PDF URLs of a lesson
ProcessUnit ==
    /\ batch_pc = "lessons"
    /\ lesson_idx <= Len(lessons_with_pdfs)
    /\ ~lessons_with_pdfs[lesson_idx].pdf_urls_is_null
    /\ pdf_idx <= Len(lessons_with_pdfs[lesson_idx].pdf_urls)
    \* lines 243-275: the first call that raises, or the file URL obtained
    \* (none when the storage client returns no URL); lines 293-304: the
    \* speech generator's constructor raises, or generate_timed_lesson_audio
    \* returns a success or a failure
    /\ \E script_outcome \in {"synthesis_raises", "upload_raises",
                              "record_raises", "url", "no_url"},
          audio_outcome \in {"raises", "success", "failure"} :
         \* no audio call is made without a file URL or without a generator
         /\ script_outcome # "url" \/ ~audio_enabled => audio_outcome = "raises"
         /\ course_result' =
                AfterUnit(course_result, lessons_with_pdfs[lesson_idx].id,
                          pdf_idx, audio_enabled, script_outcome, audio_outcome)
         /\ unit_log' = Append(unit_log,
                [lesson_id |-> lessons_with_pdfs[lesson_idx].id,
                 pdf_index |-> pdf_idx,
                 script |-> script_outcome,
                 audio |-> IF script_outcome # "url" THEN "none"
                           ELSE IF ~audio_enabled THEN "unavailable"
                           ELSE audio_outcome,
                 \* the collaborator calls of lines 243, 257, 267, 275 and
                 \* 293-296, up to the one that raises or is the last
                 calls |-> SubSeq(<<"generate_script_pdf_bytes",
                                    "upload_pdf_to_bucket",
                                    "create_signed_url",
                                    "record_prepared_lesson",
                                    "generate_timed_lesson_audio">>, 1,
                                  CASE script_outcome = "synthesis_raises" -> 1
                                    [] script_outcome = "upload_raises" -> 2
                                    [] script_outcome = "no_url" -> 3
                                    [] script_outcome = "record_raises" -> 4
                                    [] OTHER -> IF audio_enabled THEN 5 ELSE 4)])
    /\ pdf_idx' = pdf_idx + 1
    /\ UNCHANGED <<setup, audio_enabled, lessons_with_pdfs, lesson_idx, returned,
                   batch_pc>>
    /\ UNCHANGED <<parseVars, cleanVars, chunkVars, scriptVars, audioVars,
                   voiceVars>>

\* line 240: the PDF URLs of the lesson are used up
NextLesson ==
    /\ batch_pc = "lessons"
    /\ lesson_idx <= Len(lessons_with_pdfs)
    /\ ~lessons_with_pdfs[lesson_idx].pdf_urls_is_null
    /\ pdf_idx > Len(lessons_with_pdfs[lesson_idx].pdf_urls)
    /\ lesson_idx' = lesson_idx + 1
    /\ pdf_idx' = 1
    /\ UNCHANGED <<setup, audio_enabled, lessons_with_pdfs, course_result,
                   unit_log, returned, batch_pc>>
    /\ UNCHANGED <<parseVars, cleanVars, chunkVars, scriptVars, audioVars,
                   voiceVars>>

\* lines 240 and 352-359: enumerate() raises on a pdf_urls that is null
LessonFails ==
    /\ batch_pc = "lessons"
    /\ lesson_idx <= Len(lessons_with_pdfs)
    /\ lessons_with_pdfs[lesson_idx].pdf_urls_is_null
    /\ course_result' =
           [course_result EXCEPT
               !.failed_generations = @ + 1,
               !.errors = Append(@, [lesson_id |-> lessons_with_pdfs[lesson_idx].id,
                                     type |-> "lesson_processing",
                                     error |-> "not iterable"])]
    /\ lesson_idx' = lesson_idx + 1
    /\ pdf_idx' = 1
    /\ UNCHANGED <<setup, audio_enabled, lessons_with_pdfs, unit_log, returned,
                   batch_pc>>
    /\ UNCHANGED <<parseVars, cleanVars, chunkVars, scriptVars, audioVars,
                   voiceVars>>

\* line 361
ReturnResult ==
    /\ batch_pc = "lessons"
    /\ lesson_idx > Len(lessons_with_pdfs)
    /\ returned' = course_result
    /\ batch_pc' = "done"
    /\ UNCHANGED <<setup, audio_enabled, lessons_with_pdfs, lesson_idx, pdf_idx,
                   course_result, unit_log>>
    /\ UNCHANGED <<parseVars, cleanVars, chunkVars, scriptVars, audioVars,
                   voiceVars>>

BatchNext ==
    \/ CourseFails
    \/ NoLessons
    \/ BeginLessons
    \/ ProcessUnit
    \/ NextLesson
    \/ LessonFails
    \/ ReturnResult

SpecBatch == BatchInit /\ [][BatchNext]_vars

\* the function runs on: every step of it is a call that ends
SpecBatchLive == BatchInit /\ [][BatchNext]_vars /\ WF_vars(BatchNext)

(***************************************************************************)
(* The voice of an EnhancedTimedSpeechGenerator: set_voice calls and TTS   *)
(* requests in any order.                                                  *)
(***************************************************************************)
MaxVoiceCalls == 3

VoiceInit ==
    \* line 49
    /\ voice = "alloy"
    /\ set_voice_args = <<>>
    /\ request_voices = <<>>
    /\ Idle("voice")

\* self.voice after set_voice(v): any identifier is taken
set_voice_unchecked(self_voice, v) == v

\* lines 60-66: self.voice after set_voice(v)
set_voice(self_voice, v) ==
    IF v \in {"alloy", "echo", "fable", "onyx", "nova", "shimmer"}
    THEN v
    ELSE self_voice

\* a call of set_voice with one of the six identifiers or with another
\* string (another case, an unknown name, the empty string)
SetVoice ==
    /\ Len(set_voice_args) < MaxVoiceCalls
    /\ \E v \in {"alloy", "echo", "fable", "onyx", "nova", "shimmer",
                 "Alloy", "robot", ""} :
         /\ voice' = set_voice(voice, v)
         /\ set_voice_args' = Append(set_voice_args, v)
    /\ UNCHANGED request_voices
    /\ UNCHANGED <<parseVars, cleanVars, chunkVars, scriptVars, audioVars,
                   batchVars>>

\* lines 228-243: a TTS request is made with voice=self.voice
TextToSpeechChunk ==
    /\ Len(request_voices) < MaxVoiceCalls
    /\ request_voices' = Append(request_voices, voice)
    /\ UNCHANGED <<voice, set_voice_args>>
    /\ UNCHANGED <<parseVars, cleanVars, chunkVars, scriptVars, audioVars,
                   batchVars>>

VoiceNext ==
    \/ SetVoice
    \/ TextToSpeechChunk

SpecVoice == VoiceInit /\ [][VoiceNext]_vars

(***************************************************************************)
(* Claims about the segment parser (SpecParse).                            *)
(***************************************************************************)

\* C1: for a script with N well-formed timing markers the parser returns
\* exactly N segments whose order values are 0..N-1 in encounter order, also
\* when a marker is followed at once by another marker or by the end of input.
C1_DenseOrders ==
    parse_pc = "done" =>
        /\ Len(segments) = markers_seen
        /\ \A i \in 1..Len(segments) : segments[i].order = i - 1

\* C2: a script without any timing marker yields exactly one fallback segment
\* titled "Complete Lecture", of type content, without duration bounds, that
\* holds the entire cleaned text.
C2_FallbackSegment ==
    (parse_pc = "done" /\ markers_seen = 0
        /\ clean_script_metadata(script_text) # <<>>) =>
        /\ Len(segments) = 1
        /\ segments[1].title = <<"C", "o", "m", "p", "l", "e", "t", "e", " ", "L", "e", "c", "t", "u", "r", "e">>
        /\ segments[1].segment_type = "content"
        /\ segments[1].duration_min = None
        /\ segments[1].duration_max = None
        /\ segments[1].content = clean_script_metadata(script_text)

(***************************************************************************)
(* Claims about the chunker (SpecChunk).                                   *)
(***************************************************************************)

\* C6: no chunk returned by split_text_into_chunks is longer than
\* max_chars_per_chunk, unless the chunk is one single sentence that alone
\* exceeds the budget.
C6_ChunkWithinBudget ==
    chunk_pc = "done" =>
        \A i \in 1..Len(chunks) :
            \/ Len(chunks[i]) <= max_chars_per_chunk
            \/ Len(SplitSentences(chunks[i], 1, 1)) = 1

\* a text split into several chunks, one of them a single over-long sentence
\* and another one within the budget
C6_Witness ==
    /\ chunk_pc = "done"
    /\ Len(chunks) >= 2
    /\ \E i \in 1..Len(chunks) : Len(chunks[i]) > max_chars_per_chunk
    /\ \E i \in 1..Len(chunks) : Len(chunks[i]) <= max_chars_per_chunk

(***************************************************************************)
(* Claims about the content cleaner (SpecClean).                           *)
(***************************************************************************)

\* C7: cleaning is idempotent: cleaning the cleaned content again changes
\* nothing, for every input (repeated list markers, nested brackets and
\* stacked markdown markers included).
C7_CleanIdempotent ==
    clean_pc = "twice" => clean_twice = clean_once

(***************************************************************************)
(* Claims about script generation (SpecScript).                            *)
(***************************************************************************)

\* C9: a source URL that, trimmed and compared case-insensitively, does not
\* start with http:// or https:// or does not end in .pdf (the empty URL and
\* 'NULL' included) is rejected with the invalid-URL error, and no fetch, no
\* text extraction and no LLM call is ever made for it.
C9_InvalidUrlRejected ==
    LET t == Lower(Strip(pdf_source_url))
        http_scheme == Len(t) >= 7 /\ SubSeq(t, 1, 7) = <<"h", "t", "t", "p", ":", "/", "/">>
        https_scheme == Len(t) >= 8 /\ SubSeq(t, 1, 8) = <<"h", "t", "t", "p", "s", ":", "/", "/">>
        pdf_ending == Len(t) >= 4 /\ SubSeq(t, Len(t) - 3, Len(t)) = <<".", "p", "d", "f">>
    IN  ~((http_scheme \/ https_scheme) /\ pdf_ending) =>
            /\ fetch_calls = 0
            /\ extract_calls = 0
            /\ llm_calls = 0
            /\ script_result = None
            /\ script_pc \in {"validate", "done"}
            /\ script_pc = "done" => script_error = "Invalid PDF URL"

\* an https URL that does not end in .pdf has been rejected
C9_Witness ==
    /\ script_pc = "done"
    /\ script_error = "Invalid PDF URL"
    /\ StartsWith(pdf_source_url, <<"h", "t", "t", "p", "s", ":", "/", "/">>)
    /\ EndsWith(pdf_source_url, <<".", "t", "x", "t">>)

C3_ShortSpeechPaddedToMinimum ==
    audio_pc = "combine" =>
        \A k \in 1..Len(measured) :
            measured[k].speech < measured[k].declared =>
                \E i \in 1..Len(segment_files) :
                    LET entry == playlist_data.segments[i]
                        audio == IF segment_files[i] \in DOMAIN files
                                 THEN files[segment_files[i]] ELSE <<>>
                        s == measured[k].speech
                        D == measured[k].declared
                    IN  /\ entry.order = measured[k].order
                        /\ segment_files[i] \in DOMAIN files
                        /\ \A j, l \in 1..Len(audio) :
                               (audio[j].kind = "speech" /\ audio[l].kind = "silence")
                                   => j < l
                        /\ Samples(SelectSeq(audio, LAMBDA r : r.kind = "speech")) = s
                        /\ Samples(audio) - D \in {-1, 0, 1}
                        /\ final_durations[i] = Samples(audio)
                        /\ entry.silence_added_seconds = RoundTo2(D - s, sample_rate)

\* C4: once the loop over the segments has ended, every segment whose
\* speech lasted s samples, at least its declared minimum, is in
\* segment_files and in the playlist, with a final file that is exactly its
\* speech (final duration s, no silence added, nothing cut).
C4_LongSpeechKeptAsIs ==
    audio_pc = "combine" =>
        \A k \in 1..Len(measured) :
            measured[k].speech >= measured[k].declared =>
                \E i \in 1..Len(segment_files) :
                    /\ playlist_data.segments[i].order = measured[k].order
                    /\ segment_files[i] \in DOMAIN files
                    /\ \A j \in 1..Len(files[segment_files[i]]) :
                           files[segment_files[i]][j].kind = "speech"
                    /\ final_durations[i] = measured[k].speech
                    /\ playlist_data.segments[i].silence_added_seconds = 0

\* C5: in a combined lecture audio built from S segment files there are
\* exactly max(S - 1, 0) gaps (30 seconds of silence that belong to no
\* segment), none of them first or last in the audio.
C5_GapsBetweenSegments ==
    (audio_pc \in {"upload", "cleanup"} /\ CombinedPath \in DOMAIN files) =>
        LET audio == files[CombinedPath]
            S == Len(segment_result.segment_files)
            gaps == { j \in 1..Len(audio) :
                        audio[j].seg = -1 /\ audio[j].n = 30 * sample_rate }
        IN  /\ Cardinality(gaps) = IF S >= 1 THEN S - 1 ELSE 0
            /\ 1 \notin gaps
            /\ Len(audio) \notin gaps

\* C8: the combined lecture audio is the final segment files one after the
\* other in the order of segment_files, with nothing between them, and its
\* duration is the sum of the final durations measured for the segments.
C8_CombinedIsConcatenation ==
    (audio_pc \in {"upload", "cleanup"} /\ CombinedPath \in DOMAIN files) =>
        /\ files[CombinedPath] = ConcatFiles(files, segment_files)
        /\ \A j \in 1..Len(files[CombinedPath]) : files[CombinedPath][j].seg # -1
        /\ Samples(files[CombinedPath]) =
               Samples([i \in 1..Len(final_durations) |-> [n |-> final_durations[i]]])

\* two padded segments have been combined
C8_Witness ==
    /\ audio_pc = "upload"
    /\ CombinedPath \in DOMAIN files
    /\ Len(segment_files) >= 2
    /\ \E j \in 1..Len(files[CombinedPath]) :
           files[CombinedPath][j].kind = "silence" /\ files[CombinedPath][j].n > 1

(***************************************************************************)
(* Claims about the course batch (SpecBatch, SpecBatchLive).               *)
(***************************************************************************)

\* the units of the rows, as pairs of lesson id and PDF index
AllUnits ==
    UNION { { <<lessons_with_pdfs[l].id, p>> :
                p \in 1..Len(lessons_with_pdfs[l].pdf_urls) } :
            l \in 1..Len(lessons_with_pdfs) }

\* the positions in unit_log of the units whose script generation raised
ThrownUnits ==
    { i \in 1..Len(unit_log) : unit_log[i].script \notin {"url", "no_url"} }

\* the script_generation entries of the error list that name a unit
ScriptErrorsOf(unit) ==
    { j \in 1..Len(returned.errors) :
        /\ returned.errors[j].type = "script_generation"
        /\ returned.errors[j].lesson_id = unit.lesson_id
        /\ returned.errors[j].pdf_index = unit.pdf_index }

C12_AlwaysReturnsSummary ==
    <>(batch_pc = "done" /\ returned = course_result)

\* C12 witness: a summary handed back for a course in which every unit
\* failed
C12_Witness ==
    /\ batch_pc = "done"
    /\ returned = course_result
    /\ Len(unit_log) >= 2
    /\ ThrownUnits = 1..Len(unit_log)

(***************************************************************************)
(* Claims about the timed-audio job (SpecAudio), continued.                *)
(***************************************************************************)

\* C13: when no segment has produced usable audio (every final file measured
\* at line 511 is missing or empty, or there is none), the job does not
\* report success, and once it has returned its result is a failure with an
\* error.
C13_NoAudioMeansFailure ==
    (\A i \in 1..Len(final_durations) : final_durations[i] = 0) =>
        /\ ~result.success
        /\ audio_pc = "done" => result.error # NoneStr

\* C13 witness: the job went through all its segments, none of them gave a
\* final file, and the job returned the combine failure
C13_Witness ==
    /\ audio_pc = "done"
    /\ Len(job_segments) > 0
    /\ seg_idx > Len(job_segments)
    /\ tts_calls > 0
    /\ segment_files = <<>>
    /\ ~result.success
    /\ result.error = "Failed to combine audio segments"

\* C14: every result returned by generate_timed_lesson_audio is either a
\* populated success (success true, audio_url set, error null) or a
\* classified failure (success false, error set), on every path, also when
\* the upload fails and when the storage client returns no URL.
C14_SuccessOrClassifiedFailure ==
    audio_pc = "done" =>
        \/ /\ result.success
           /\ result.audio_url # NoneStr
           /\ result.error = NoneStr
        \/ /\ ~result.success
           /\ result.error # NoneStr

(***************************************************************************)
(* Claims about the segment parser (SpecParse), continued.                 *)
(***************************************************************************)

\* a line that is neither blank nor a marker line
IsTextLine(line) ==
    /\ line # <<>>
    /\ timing_match(line) = None
    /\ ~HasMinutesBracket(line)

\* the text lines among ls, stripped, in order
TextLines(ls) ==
    SelectSeq([i \in 1..Len(ls) |-> Strip(ls[i])], IsTextLine)

\* the text lines of the contents of segs, segment after segment
RECURSIVE SegmentTextLines(_)
SegmentTextLines(segs) ==
    IF segs = <<>> THEN <<>>
    ELSE TextLines(SplitLines(Head(segs).content))
             \o SegmentTextLines(Tail(segs))

\* C15: the parsed segments partition the metadata-cleaned text: its lines
\* that are neither blank nor marker lines, those before the first timing
\* marker included, are the content lines of the segments, each once and in
\* the original order.
C15_SegmentsPartitionText ==
    parse_pc = "done" => SegmentTextLines(segments) = TextLines(lines)

(***************************************************************************)
(* Claims about the timed-audio job (SpecAudio), continued.                *)
(***************************************************************************)

\* C16: when the synthesis of one chunk of a segment of several chunks fails,
\* only that chunk is dropped and the segment's speech is built from the
\* other chunks; the segment is skipped only if all its chunks fail.  As a
\* property of the steps: a step that goes through a segment of several
\* chunks and makes a second request (the first chunk was synthesized)
\* writes the segment's speech file and goes on to assemble the segment.
C16_FailedChunkAloneDropped ==
    [][ ( /\ audio_pc = "segment"
          /\ seg_idx <= Len(job_segments)
          /\ Len(TtsTexts(clean_segment_content_for_tts(
                     job_segments[seg_idx].content))) >= 2
          /\ tts_calls' >= tts_calls + 2 ) =>
        ( /\ SpeechPath(job_segments[seg_idx].order) \in DOMAIN files'
          /\ audio_pc' = "assemble" ) ]_vars

(***************************************************************************)
(* Claims about the chunker (SpecChunk), continued.                        *)
(***************************************************************************)

\* the paragraphs of a text (its pieces between blank lines), each with its
\* whitespace normalised, the empty ones left out
ParagraphsOf(text) ==
    SelectSeq([i \in 1..Len(SplitParagraphs(Strip(text))) |->
                  Sub("WhitespaceRun", Strip(SplitParagraphs(Strip(text))[i]), 1)],
              LAMBDA p : p # <<>>)

\* ' '.join(ps)
RECURSIVE JoinSpaces(_)
JoinSpaces(ps) ==
    IF ps = <<>> THEN <<>>
    ELSE IF Len(ps) = 1 THEN Head(ps)
    ELSE Head(ps) \o <<" ">> \o JoinSpaces(Tail(ps))

\* C17: for a text longer than the budget whose paragraphs each fit the
\* budget, the chunker splits at paragraph boundaries only: every chunk is a
\* run of whole paragraphs (sentence splitting is for a paragraph that alone
\* exceeds the budget).
C17_ParagraphsKeptWhole ==
    ( /\ chunk_pc = "done"
      /\ Len(Sub("WhitespaceRun", Strip(chunk_text), 1)) > max_chars_per_chunk
      /\ \A i \in 1..Len(ParagraphsOf(chunk_text)) :
             Len(ParagraphsOf(chunk_text)[i]) <= max_chars_per_chunk ) =>
        \A c \in 1..Len(chunks) :
            \E a, b \in 1..Len(ParagraphsOf(chunk_text)) :
                /\ a <= b
                /\ Sub("WhitespaceRun", chunks[c], 1)
                     = JoinSpaces(SubSeq(ParagraphsOf(chunk_text), a, b))

(***************************************************************************)
(* Claims about the metadata cleaner, applied by the parser (SpecParse).   *)
(***************************************************************************)

\* the lines of the script that are not metadata lines
ContentLineNumbers ==
    { i \in 1..Len(SplitLines(script_text)) :
        ~IsMetadataLine(Strip(SplitLines(script_text)[i])) }

\* C18: the metadata strip drops only the leading run of metadata and blank
\* lines: for a script with a line that is not a metadata line, the cleaned
\* text is the script from its first such line on (every later line kept as
\* it is, the whole stripped), and it is not empty, however many metadata or
\* blank lines come first.
C18_OnlyLeadingMetadataDropped ==
    (parse_pc # "start" /\ ContentLineNumbers # {}) =>
        LET first == CHOOSE i \in ContentLineNumbers :
                         \A j \in ContentLineNumbers : i <= j
        IN  /\ JoinLines(lines)
                 = Strip(JoinLines(SubSeq(SplitLines(script_text), first,
                                          Len(SplitLines(script_text)))))
            /\ JoinLines(lines) # <<>>

(***************************************************************************)
(* Claims about the timed-audio job (SpecAudio), continued.                *)
(***************************************************************************)

\* C19: once generate_timed_lesson_audio has returned, on success or on any
\* failure, nothing made for the job is left: no segment file, speech file,
\* playlist file or combined file, and no job directory.
C19_ScratchFilesRemoved ==
    audio_pc = "done" => (DOMAIN files = {} /\ ~job_dir)

\* C20: the segments are gone through in ascending order, and the list of
\* segment files, the playlist and the combined audio keep that order: of
\* two segments that both gave audio, the one with the smaller order comes
\* first in each of them, whatever was skipped in between.
C20_OrderKept ==
    /\ \A i, j \in 1..Len(measured) :
           i < j => measured[i].order < measured[j].order
    /\ \A i, j \in 1..Len(segment_files) :
           i < j => segment_files[i][2] < segment_files[j][2]
    /\ segment_files # <<>> =>
           /\ Len(playlist_data.segments) = Len(segment_files)
           /\ \A i \in 1..Len(segment_files) :
                  /\ playlist_data.segments[i].order = segment_files[i][2]
                  /\ playlist_data.segments[i].audio_file = segment_files[i]
    /\ CombinedPath \in DOMAIN files =>
           \A i, j \in 1..Len(files[CombinedPath]) :
               i < j => files[CombinedPath][i].seg <= files[CombinedPath][j].seg

\* C20 witness: a combined audio of the first and the third segment, the
\* second one skipped
C20_Witness ==
    /\ CombinedPath \in DOMAIN files
    /\ Len(segment_files) = 2
    /\ segment_files[1][2] = 0
    /\ segment_files[2][2] = 2
    /\ \E i \in 1..Len(files[CombinedPath]) : files[CombinedPath][i].seg = 0
    /\ \E i \in 1..Len(files[CombinedPath]) : files[CombinedPath][i].seg = 2

(***************************************************************************)
(* Further claims about the course batch (SpecBatch).                      *)
(***************************************************************************)

\* C21: in every unit the script synthesis is the first call and the audio
\* generation, when it is called at all, is the last call, made after the
\* synthesis, the upload, the URL and the record of that unit went through;
\* the audio counters count exactly the units whose script generation
\* ended with a file URL, so a unit whose script generation failed adds
\* neither an audio success nor an audio failure.
C21_ScriptBeforeAudio ==
    /\ \A i \in 1..Len(unit_log) :
          /\ unit_log[i].calls[1] = "generate_script_pdf_bytes"
          /\ \A k \in 1..Len(unit_log[i].calls) :
                unit_log[i].calls[k] = "generate_timed_lesson_audio" =>
                    /\ k = Len(unit_log[i].calls)
                    /\ unit_log[i].script = "url"
                    /\ SubSeq(unit_log[i].calls, 1, k - 1) =
                           <<"generate_script_pdf_bytes", "upload_pdf_to_bucket",
                             "create_signed_url", "record_prepared_lesson">>
    /\ course_result.successful_audio_generations
         + course_result.failed_audio_generations
         = Cardinality({ i \in 1..Len(unit_log) : unit_log[i].script = "url" })
    /\ course_result.successful_audio_generations
         = Cardinality({ i \in 1..Len(unit_log) : unit_log[i].audio = "success" })

\* a finished course with a unit whose script generation failed, a unit
\* whose audio was generated and a unit whose audio failed
C21_Witness ==
    /\ batch_pc = "done"
    /\ \E i, j, k \in 1..Len(unit_log) :
          /\ unit_log[i].script = "upload_raises"
          /\ unit_log[j].audio = "success"
          /\ Len(unit_log[j].calls) = 5
          /\ unit_log[k].audio = "failure"
    /\ course_result.failed_generations = 1
    /\ course_result.successful_audio_generations >= 1
    /\ course_result.failed_audio_generations >= 1

(***************************************************************************)
(* Further claims about the timed-audio job (SpecAudio).                   *)
(***************************************************************************)

\* C22: when the loop over the segments stands at a segment whose cleaned
\* content is empty, its step makes no TTS request, writes no file, adds no
\* entry to the playlist or to segment_files, and leaves the loop at the
\* next segment.
C22_EmptySegmentSkipped ==
    [][ (/\ audio_pc = "segment"
         /\ seg_idx <= Len(job_segments)
         /\ Strip(clean_segment_content_for_tts(job_segments[seg_idx].content)) = <<>>)
        => /\ tts_calls' = tts_calls
           /\ files' = files
           /\ playlist_data' = playlist_data
           /\ segment_files' = segment_files
           /\ seg_idx' = seg_idx + 1
           /\ audio_pc' = "segment" ]_vars

\* a segment with empty cleaned content was passed over, it has no playlist
\* entry, and a later segment has its final file and its entry
C22_Witness ==
    /\ playlist_data # None
    /\ \E i, j \in 1..Len(job_segments) :
          /\ i < j
          /\ j < seg_idx
          /\ Strip(clean_segment_content_for_tts(job_segments[i].content)) = <<>>
          /\ \A k \in 1..Len(playlist_data.segments) :
                playlist_data.segments[k].order # job_segments[i].order
          /\ \E k \in 1..Len(playlist_data.segments) :
                playlist_data.segments[k].order = job_segments[j].order
          /\ FinalPath(job_segments[j].order) \in DOMAIN files

(***************************************************************************)
(* Further claims about the segment parser (SpecParse).                    *)
(***************************************************************************)

\* the keyword sets in the order in which the claim says they are tested
C23_Keywords ==
    << { <<"h", "o", "o", "k">>, <<"o", "p", "e", "n", "i", "n", "g">>, <<"i", "n", "t", "r", "o", "d", "u", "c", "t", "i", "o", "n">> },
       { <<"o", "b", "j", "e", "c", "t", "i", "v", "e">>, <<"l", "e", "a", "r", "n", "i", "n", "g">>, <<"g", "o", "a", "l", "s">> },
       { <<"p", "r", "a", "c", "t", "i", "c", "e">>, <<"a", "p", "p", "l", "i", "c", "a", "t", "i", "o", "n">>, <<"a", "c", "t", "i", "v", "i", "t", "y">> },
       { <<"r", "e", "c", "a", "p">>, <<"t", "a", "k", "e", "a", "w", "a", "y">>, <<"c", "o", "n", "c", "l", "u", "s", "i", "o", "n">>, <<"s", "u", "m", "m", "a", "r", "y">> } >>

\* C23: the type of every segment (saved or open) is that of the first of
\* the keyword sets hook, objectives, practice, recap that has a keyword
\* contained in the lower-cased label, and content when no set has one.
C23_FirstMatchingSetWins ==
    \A seg \in { segments[i] : i \in 1..Len(segments) }
                \cup (IF current_segment = None THEN {} ELSE {current_segment}) :
        LET matching == { k \in 1..4 : \E kw \in C23_Keywords[k] :
                                            Contains(Lower(seg.title), kw) }
        IN  seg.segment_type =
                IF matching = {} THEN "content"
                ELSE <<"hook", "objectives", "practice", "recap">>[
                         CHOOSE k \in matching : \A m \in matching : k <= m]

\* a label with a keyword of objectives and a keyword of practice was parsed
C23_Witness ==
    /\ parse_pc = "done"
    /\ Len(segments) = 1
    /\ Contains(Lower(segments[1].title), <<"l", "e", "a", "r", "n", "i", "n", "g">>)
    /\ Contains(Lower(segments[1].title), <<"a", "c", "t", "i", "v", "i", "t", "y">>)
    /\ segments[1].segment_type = "objectives"

(***************************************************************************)
(* Further claims about the script pipeline (SpecScript).                  *)
(***************************************************************************)

\* C24: a unit makes at most one completion call; it makes none when it
\* ends at the URL validation, the download (HTTP error, empty body, missing
\* %PDF magic), the text extraction or the length check; after an empty
\* completion the unit has failed with no script returned; a returned script
\* comes from exactly one call.
C24_AtMostOneLlmCall ==
    /\ llm_calls <= 1
    /\ script_error \in {"Invalid PDF URL", "Failed to download PDF",
                         "Failed to extract PDF text", "PDF content too short"}
           => llm_calls = 0
    /\ script_pc \in {"validate", "extract", "check", "llm"} => llm_calls = 0
    /\ script_error = "OpenAI returned an empty script"
           => (script_result = None /\ script_pc = "done" /\ llm_calls = 1)
    /\ script_result # None => (llm_calls = 1 /\ script_error = "")

\* a unit whose text passed every check has ended on an empty completion
C24_Witness ==
    /\ script_pc = "done"
    /\ script_error = "OpenAI returned an empty script"
    /\ extracted # None
    /\ ~TooShort(extracted)
    /\ llm_calls = 1
    /\ script_result = None

(***************************************************************************)
(* Claim about the voice (SpecVoice).                                      *)
(***************************************************************************)

FailedLessons ==
    { l \in 1..Len(lessons_with_pdfs) :
        l < lesson_idx /\ lessons_with_pdfs[l].pdf_urls_is_null }

\* C26 (as stated): at every point of the loop successful_generations +
\* failed_generations is the number of PDF units finished so far.
C26_CountersCountUnits ==
    course_result.successful_generations + course_result.failed_generations
        = Len(unit_log)

\* C26 (amended): every finished PDF unit is counted in exactly one of the
\* two counters, and failed_generations counts, besides the failed units,
\* one for every lesson whose processing failed as a whole.
C26_CountersCountUnitsAndFailedLessons ==
    /\ course_result.successful_generations
           = Len(unit_log) - Cardinality(ThrownUnits)
    /\ course_result.failed_generations
           = Cardinality(ThrownUnits) + Cardinality(FailedLessons)

\* a course with a lesson that failed as a whole and a lesson with a unit
\* that succeeded and a unit that failed
C26_Witness ==
    /\ batch_pc = "done"
    /\ Cardinality(FailedLessons) = 1
    /\ Len(unit_log) = 2
    /\ Cardinality(ThrownUnits) = 1
    /\ course_result.successful_generations = 1
    /\ course_result.failed_generations = 2

\* C27: the error list has one entry for every counted failure, that is
\* failed_generations + failed_audio_generations entries, and one more when
\* the course as a whole failed; the audio counters together never exceed
\* successful_generations.
C27_OneEntryPerFailure ==
    /\ Len(course_result.errors) =
           course_result.failed_generations
           + course_result.failed_audio_generations
           + (IF /\ batch_pc = "done"
                 /\ \/ setup = "client_raises"
                    \/ setup = "processor_raises" /\ lessons_with_pdfs # <<>>
              THEN 1 ELSE 0)
    /\ Cardinality({ j \in 1..Len(course_result.errors) :
                       course_result.errors[j].type = "course_processing" }) <= 1
    /\ course_result.successful_audio_generations
           + course_result.failed_audio_generations
           <= course_result.successful_generations
    /\ returned # None => returned = course_result

\* a returned summary with a failed lesson, a failed unit and a unit whose
\* script was generated and whose audio generation failed: three entries
C27_Witness ==
    /\ batch_pc = "done"
    /\ returned.failed_generations = 2
    /\ Cardinality(FailedLessons) = 1
    /\ returned.successful_generations = 1
    /\ returned.failed_audio_generations = 1
    /\ Len(returned.errors) = 3

(***************************************************************************)
(* Further claims about the timed-audio job (SpecAudio), continued.        *)
(***************************************************************************)

\* C28: in what generate_timed_audio_segments_with_pauses returns, every
\* path of segment_files and the audio file of every playlist entry is a
\* final segment file that was written, and segments_generated, the length
\* of segment_files and the number of playlist entries are the same.
C28_ListedFilesWereWritten ==
    audio_pc = "combine" =>
        /\ \A i \in 1..Len(segment_result.segment_files) :
              segment_result.segment_files[i] \in DOMAIN files
        /\ \A i \in 1..Len(segment_result.playlist_data.segments) :
              segment_result.playlist_data.segments[i].audio_file \in DOMAIN files
        /\ segment_result.segments_generated = Len(segment_result.segment_files)
        /\ Len(segment_result.segment_files) =
               Len(segment_result.playlist_data.segments)

(***************************************************************************)
(* Further claim about the chunker (SpecChunk).                            *)
(***************************************************************************)

\* C29: the chunks built by split_text_into_chunks, joined in order with
\* single spaces, are the whitespace-normalised input; the chunks returned
\* are these without the ones of at most 10 characters, in the same order;
\* so when no chunk was dropped the returned chunks joined with single
\* spaces are the whitespace-normalised input, nothing lost, moved or
\* repeated.
C29_ChunksLoseOnlyNoise ==
    chunk_pc = "done" =>
        LET normalised == Sub("WhitespaceRun", Strip(chunk_text), 1)
            built == AddLastChunk(
                         ParagraphLoop(SplitParagraphs(normalised), 1,
                                       [chunks |-> <<>>, current_chunk |-> <<>>]))
        IN  /\ JoinSpaces(built) = normalised
            /\ chunks = SelectSeq(built, LAMBDA c : Len(c) > 10)
            /\ (\A i \in 1..Len(built) : Len(built[i]) > 10)
                   => JoinSpaces(chunks) = normalised

\* a text with a paragraph break, split into several chunks none of which
\* was dropped
C29_Witness ==
    /\ chunk_pc = "done"
    /\ Len(chunks) >= 2
    /\ Contains(chunk_text, <<"\n", "\n">>)
    /\ JoinSpaces(chunks) = Sub("WhitespaceRun", Strip(chunk_text), 1)
    /\ Len(JoinSpaces(chunks)) < Len(Strip(chunk_text))

(***************************************************************************)
(* Further claim about the segment parser (SpecParse).                     *)
(***************************************************************************)

\* C30: the step of the loop at a line with a marker without label (the
\* pattern [min-max minutes] is found, the labelled pattern is not) leaves
\* the saved segments, the next order value and the collected content lines
\* as they are; with a segment open it sets that segment's duration_min and
\* duration_max to the numbers of the marker and nothing else of it; with
\* no segment open it leaves the parser state as it is.
C30_SimpleMarkerOnlySetsDurations ==
    [][ (/\ parse_pc = "loop"
         /\ line_idx <= Len(lines)
         /\ timing_match(Strip(lines[line_idx])) = None
         /\ simple_timing_match(Strip(lines[line_idx])) # None)
        => /\ segments' = segments
           /\ segment_order' = segment_order
           /\ current_content' = current_content
           /\ markers_seen' = markers_seen
           /\ line_idx' = line_idx + 1
           /\ current_segment = None => current_segment' = None
           /\ current_segment # None =>
                 /\ current_segment' # None
                 /\ current_segment'.title = current_segment.title
                 /\ current_segment'.content = current_segment.content
                 /\ current_segment'.order = current_segment.order
                 /\ current_segment'.segment_type = current_segment.segment_type
                 /\ current_segment'.duration_min =
                        simple_timing_match(Strip(lines[line_idx])).group1
                 /\ current_segment'.duration_max =
                        simple_timing_match(Strip(lines[line_idx])).group2 ]_vars

\* "[Hook: 3-5 minutes]", a text line and "[2-4 minutes]" in either order:
\* one segment, of order 0, lasting 2 to 4 minutes, with the text line as
\* its content
C30_Witness ==
    /\ parse_pc = "done"
    /\ Len(lines) = 3
    /\ Len(segments) = 1
    /\ segments[1].title = <<"H", "o", "o", "k">>
    /\ segments[1].order = 0
    /\ segments[1].duration_min = 2
    /\ segments[1].duration_max = 4
    /\ segments[1].content = <<"H", "i", " ", "a", "l", "l", ".">>
    /\ segment_order = 1

=============================================================================
